---- MODULE Spec2Model ----
(***************************************************************************)
(* State-machine model of the authoritative soccer match room              *)
(* (SoccerRoom): input pipeline, fixed-timestep sim step, contact pass,    *)
(* ball boundary enforcement, goal adjudication, match life cycle.         *)
(*                                                                         *)
(* Numbers.  JavaScript doubles are modelled in fixed point:               *)
(*   positions  in units of 1/1800 m   (Pos(n, d) is n/d metres)           *)
(*   velocities in units of 1/30 m/s   (Vel(n, d) is n/d m/s)              *)
(*   impulses   in units of 1/30 kg m/s                                    *)
(*   multipliers in hundredths         (100 is 1.0, 150 is 1.5)            *)
(*   wall-clock time in milliseconds                                       *)
(* so that one sim step of 1/60 s moves a body by exactly its velocity.    *)
(***************************************************************************)
EXTENDS Integers, Sequences, FiniteSets, TLC

Pos(n, d) == (n * 1800) \div d
Vel(n, d) == (n * 30) \div d

Abs(a) == IF a < 0 THEN -a ELSE a
Max(a, b) == IF a >= b THEN a ELSE b
Min(a, b) == IF a <= b THEN a ELSE b
\* a * n / d, rounded toward zero
MulDiv(a, n, d) == IF a * n >= 0 THEN (a * n) \div d ELSE -((-(a * n)) \div d)

RECURSIVE ISqrtIn(_, _, _)
\* the largest r in lo..hi with r * r <= n, given lo * lo <= n
ISqrtIn(n, lo, hi) ==
    IF lo >= hi THEN lo
    ELSE LET mid == (lo + hi + 1) \div 2
         IN  IF mid * mid <= n THEN ISqrtIn(n, mid, hi) ELSE ISqrtIn(n, lo, mid - 1)
\* Math.sqrt, rounded down to the unit
ISqrt(n) == IF n <= 0 THEN 0 ELSE ISqrtIn(n, 0, 46340)

(***************************************************************************)
(* Program constants                                                       *)
(***************************************************************************)
TICK_RATE == 60
GRAVITY == 20
MOVE_SPEED == 8
JUMP_FORCE == 8
MAX_JUMPS == 2
DOUBLE_JUMP_MULTIPLIER == 80           \* 0.8, in hundredths
GROUND_Y == Pos(1, 10)                 \* 0.1
GROUND_CHECK_EPSILON == Pos(5, 100)    \* 0.05
VELOCITY_SMOOTHING == 95               \* 0.95, in hundredths
PLAYER_RADIUS == Pos(6, 10)            \* 0.6
GIANT_RADIUS == Pos(2, 1)              \* 2.0
BALL_RADIUS == Pos(8, 10)              \* 0.8
BALL_MASS == 3
ARENA_HALF_WIDTH == Pos(145, 10)       \* 14.5
ARENA_HALF_DEPTH == Pos(95, 10)        \* 9.5
WALL_HEIGHT == Pos(10, 1)
GOAL_WIDTH == Pos(5, 1)
GOAL_HEIGHT == Pos(4, 1)
GOAL_LINE_X == Pos(108, 10)            \* 10.8
GOAL_BACK_X == Pos(17, 1)              \* goalBackX = 17.0
KICK_RANGE == Pos(3, 1)
KICK_VERTICAL_BOOST == Vel(8, 10)      \* 0.8
GOAL_COOLDOWN == 5000
GOAL_RESET_DELAY == 3000
END_GAME_RESET_DELAY == 5000
MATCH_TIMER_START == 300
TIMER_INTERVAL == 1000
INPUT_QUEUE_MAX == 60
POWERUP_RANGE == Pos(15, 10)           \* 1.5
POWERUP_DURATION == 15000
MAX_POWERUPS == 3

\* Date.now() when the room is created: late enough that lastGoalTime = 0 lies
\* further back than any cooldown, as it does for a real clock
StartTime == 2 * GOAL_COOLDOWN

\* one sim step of 1/TICK_RATE s: displacement (position units) of velocity v
DeltaPos(v) == (v * 60) \div TICK_RATE
\* GRAVITY * FIXED_TIMESTEP in velocity units
GravityStep == Vel(GRAVITY, TICK_RATE)

\* a time step in seconds is the fraction n / d
FIXED_TIMESTEP == [n |-> 1, d |-> TICK_RATE]
\* the period of the simulation interval, in ms
PHYSICS_TICK_RATE == 1000 \div TICK_RATE

\* deltaTimeMs / 1000: the step of a loop that follows the wall clock
DeltaTimeWallClock(deltaTimeMs) == [n |-> deltaTimeMs, d |-> 1000]

\* const deltaTime = PHYSICS.FIXED_TIMESTEP: the argument is not read
DeltaTime(deltaTimeMs) == FIXED_TIMESTEP

\* v * deltaTime in position units, and GRAVITY * deltaTime in velocity units
DeltaPosAt(v, deltaTime) == (v * 60 * deltaTime.n) \div deltaTime.d
GravityStepAt(deltaTime) == Vel(GRAVITY * deltaTime.n, deltaTime.d)

(***************************************************************************)
(* Bounds of the model                                                     *)
(***************************************************************************)
MaxSteps == 3          \* sim steps per behaviour
MaxTick == 84          \* largest input tick a client sends
BurstLen == 20         \* records in one burst of inputs
MaxSmallTick == 2      \* ticks a client may send in any order
MaxJumpId == 3        \* largest jumpRequestId a client sends
MaxClock == 8          \* wall-clock seconds a behaviour covers
MaxKicks == 2          \* kicks between two sim steps

Sessions == {"s1", "s2", "s3", "s4", "s5"}
Null == "null"
Undefined == "undefined"

VARIABLES
    players,        \* state.players: sessionId -> PlayerState (with the server-only fields)
    playerOrder,    \* insertion order of state.players (Map iteration order)
    playerBodies,   \* playerBodies: sessionId -> kinematic body
    ballBody,       \* the ball's rigid body: translation, linvel, angvel
    ball,           \* state.ball, the published copy
    powerUps,       \* state.powerUps in insertion order
    redScore, blueScore, timer, gamePhase,
    currentTick,        \* this.currentTick
    stateCurrentTick,   \* this.state.currentTick
    lastGoalTime,
    lastTouchSessionId, secondLastTouchSessionId,
    timerInterval,  \* handle of the match countdown interval, or Null
    timers,         \* pending clock timeouts and intervals, in scheduling order
    now,            \* Date.now() / the room clock, ms
    log,            \* events broadcast by the last handler run
    goalScoredCount, \* number of goal-scored broadcasts since the last resetGame (history)
    clients,        \* this.clients: the connected sessions
    seen,           \* every session id handed out so far (ids are never reused)
    emptyDisposeTimeout, \* whether this.emptyDisposeTimeout holds a handle
    disposed,       \* whether the room has been disconnected
    privateCode,    \* this.privateCode: the join code of a private room, or Null
    codeToRoomId,   \* roomRegistry.codeToRoomId
    roomIdToCode    \* roomRegistry.roomIdToCode

\* groups of variables, for UNCHANGED
registryVars == <<privateCode, codeToRoomId, roomIdToCode>>
worldVars == <<playerBodies, ballBody, ball, powerUps>>
matchVars == <<redScore, blueScore, timer, gamePhase, timerInterval, goalScoredCount>>
tickVars == <<currentTick, stateCurrentTick>>
goalVars == <<lastGoalTime, lastTouchSessionId, secondLastTouchSessionId>>
roomVars == <<clients, seen, emptyDisposeTimeout, disposed, registryVars>>

vars == <<players, playerOrder, worldVars, matchVars, tickVars, goalVars, roomVars,
          timers, now, log>>

(***************************************************************************)
(* JavaScript values: a field that may hold a number, undefined or NaN     *)
(***************************************************************************)
Num(n) == [t |-> "number", v |-> n]
UndefinedV == [t |-> "undefined", v |-> 0]
NaNV == [t |-> "NaN", v |-> 0]
\* v++ on a field: undefined++ and NaN++ store NaN
JsInc(val) == IF val.t = "number" THEN Num(val.v + 1) ELSE NaNV

(***************************************************************************)
(* Records                                                                 *)
(***************************************************************************)
\* new PlayerState() (GameState.js) followed by the assignments of onJoin.
\* inputQueue, lastReceivedTick are created lazily by the code with these values;
\* lastInput is a sequence of length 0 (undefined) or 1.
\* goals, assists and shots are never initialised by the constructor.
NewPlayer(sessionId, team, spawnX) ==
    [ sessionId |-> sessionId, team |-> team,
      x |-> spawnX, y |-> GROUND_Y, z |-> 0,
      vx |-> 0, vy |-> 0, vz |-> 0, rotY |-> 0,
      invisible |-> FALSE, giant |-> FALSE,
      jumpCount |-> 0, resetPosition |-> FALSE,
      speedMult |-> 100, jumpMult |-> 100, kickMult |-> 100,
      tick |-> 0, lastProcessedJumpRequestId |-> 0,
      inputQueue |-> << >>, lastReceivedTick |-> 0, lastInput |-> << >>,
      goals |-> UndefinedV, assists |-> UndefinedV, shots |-> UndefinedV ]

\* an input record of the `input` message
Input(tick, x, z, rotY, jumpRequestId) ==
    [tick |-> tick, x |-> x, z |-> z, rotY |-> rotY, jumpRequestId |-> jumpRequestId]

Vec(x, y, z) == [x |-> x, y |-> y, z |-> z]
ZeroVec == Vec(0, 0, 0)

\* a kinematic body: its translation and the pending setNextKinematicTranslation
\* (a sequence of length 0 or 1), applied by world.step(), and the shape of its
\* one collider: "ball" is ball(PLAYER_RADIUS) lifted by PLAYER_RADIUS
NewBody(x, y, z) == [pos |-> Vec(x, y, z), next |-> << >>, collider |-> "ball"]

\* createBall(): the dynamic ball body
NewBallBody == [pos |-> Vec(0, Pos(2, 1), 0), vel |-> ZeroVec, angvel |-> ZeroVec]

\* new BallState(); ownerSessionId is first assigned by a handler
NewBallState ==
    [x |-> 0, y |-> Pos(2, 1), z |-> 0, vx |-> 0, vy |-> 0, vz |-> 0,
     tick |-> 0, ownerSessionId |-> Undefined]

(***************************************************************************)
(* handleInput                                                             *)
(***************************************************************************)
\* data.inputs.sort((a, b) => a.tick - b.tick): ascending, stable.  The record
\* at index i lands behind every record with a smaller tick and every earlier
\* record with the same tick.
SortByTick(inputs) ==
    LET n == Len(inputs)
        before(i) == {j \in 1 .. n : \/ inputs[j].tick < inputs[i].tick
                                     \/ inputs[j].tick = inputs[i].tick /\ j < i}
    IN  [k \in 1 .. n |-> inputs[CHOOSE i \in 1 .. n : Cardinality(before(i)) + 1 = k]]

ProcessInputNoDedup(player, input) ==
    [player EXCEPT !.inputQueue = Append(@, input), !.lastReceivedTick = input.tick]

ProcessInputAcceptEqual(player, input) ==
    IF input.tick >= player.lastReceivedTick
    THEN [player EXCEPT !.inputQueue = Append(@, input), !.lastReceivedTick = input.tick]
    ELSE player

\* processInput: deduplicate, only accept newer inputs
ProcessInput(player, input) ==
    IF input.tick > player.lastReceivedTick
    THEN [player EXCEPT !.inputQueue = Append(@, input), !.lastReceivedTick = input.tick]
    ELSE player

RECURSIVE ProcessAll(_, _)
\* data.inputs.forEach(processInput)
ProcessAll(player, inputs) ==
    IF inputs = << >> THEN player
    ELSE ProcessAll(ProcessInput(player, Head(inputs)), Tail(inputs))

\* player.inputQueue.slice(-60) when longer than 60
CapQueue(queue) ==
    IF Len(queue) > INPUT_QUEUE_MAX
    THEN SubSeq(queue, Len(queue) - INPUT_QUEUE_MAX + 1, Len(queue))
    ELSE queue

\* the batched branch: sort, process each, cap
HandleBatch(player, inputs) ==
    LET done == ProcessAll(player, SortByTick(inputs))
    IN  [done EXCEPT !.inputQueue = CapQueue(@)]

\* the single-record branch: processInput(data), no cap
HandleSingle(player, input) == ProcessInput(player, input)

\* handleInput(client, data) with data = { inputs: [...] }
HandleInputBatch(s, inputs) ==
    /\ IF s \in DOMAIN players
       THEN players' = [players EXCEPT ![s] = HandleBatch(@, inputs)]
       ELSE UNCHANGED players
    /\ log' = << >>
    /\ UNCHANGED <<playerOrder, worldVars, matchVars, tickVars, goalVars, roomVars,
                   timers, now>>

\* handleInput(client, data) with data a single record
HandleInputSingle(s, input) ==
    /\ IF s \in DOMAIN players
       THEN players' = [players EXCEPT ![s] = HandleSingle(@, input)]
       ELSE UNCHANGED players
    /\ log' = << >>
    /\ UNCHANGED <<playerOrder, worldVars, matchVars, tickVars, goalVars, roomVars,
                   timers, now>>

(***************************************************************************)
(* Clock timers: this.clock.setTimeout / setInterval                       *)
(***************************************************************************)
\* a pending timer: what it runs, when it is due, and what its closure captured
\* (s: a session, id: a power-up id or interval handle, n: a step counter)
Timer(kind, due, s, id, n) == [kind |-> kind, due |-> due, s |-> s, id |-> id, n |-> n]

\* an event sent with this.broadcast
Event(type, arg) == [type |-> type, arg |-> arg]

(***************************************************************************)
(* applyPowerUp                                                            *)
(***************************************************************************)
\* the giant branch's safety push: a ball within 3.5 m (horizontally) of the
\* player is moved 4 m away along the push direction and given a small kick
GiantPush(bb, playerPos) ==
    LET dx == bb.pos.x - playerPos.x
        dz == bb.pos.z - playerPos.z
        near == Abs(dx) < Pos(35, 10) /\ Abs(dz) < Pos(35, 10)
                /\ dx * dx + dz * dz < Pos(35, 10) * Pos(35, 10)
        dist == ISqrt(dx * dx + dz * dz)
        overlap == dist < Pos(1, 10)
        pushX == IF overlap THEN 1 ELSE dx
        pushZ == IF overlap THEN 0 ELSE dz
        len == IF overlap THEN 1 ELSE dist
    IN  IF near
        THEN [bb EXCEPT !.pos = Vec(playerPos.x + MulDiv(pushX, Pos(4, 1), len), Pos(2, 1),
                                    playerPos.z + MulDiv(pushZ, Pos(4, 1), len)),
                        !.vel = Vec(MulDiv(pushX, Vel(10, 1), len), Vel(5, 1),
                                    MulDiv(pushZ, Vel(10, 1), len))]
        ELSE bb

\* applyPowerUp(player, type) at clock time t: st carries the objects it touches
ApplyPowerUp(st, s, type, t) ==
    LET hasBody == s \in DOMAIN st.bodies
    IN  CASE type = "speed" ->
               [st EXCEPT !.timers = @ \o << Timer("rampUp", t + 50, s, 0, 0),
                                             Timer("rampDownStart", t + POWERUP_DURATION - 1000, s, 0, 0) >>]
          [] type = "jump" ->
               [st EXCEPT !.players[s].jumpMult = 150,
                          !.timers = Append(@, Timer("jumpExpire", t + POWERUP_DURATION, s, 0, 0))]
          [] type = "kick" ->
               [st EXCEPT !.players[s].kickMult = 200,
                          !.timers = Append(@, Timer("kickExpire", t + POWERUP_DURATION, s, 0, 0))]
          [] type = "invisible" ->
               [st EXCEPT !.players[s].invisible = TRUE,
                          !.timers = Append(@, Timer("invisibleExpire", t + POWERUP_DURATION, s, 0, 0))]
          [] type = "giant" ->
               [st EXCEPT !.players[s].giant = TRUE,
                          \* collider 0 replaced by ball(2.0) lifted by 2.0
                          !.bodies = IF hasBody THEN [@ EXCEPT ![s].collider = "giantBall"] ELSE @,
                          !.ballBody = IF hasBody THEN GiantPush(@, st.bodies[s].pos) ELSE @,
                          !.timers = Append(@, Timer("giantExpire", t + POWERUP_DURATION, s, 0, 0))]
          [] OTHER -> st

\* horizontal distance test of the pickup check: dist < 1.5
InPickupRange(pos, p) ==
    LET dx == pos.x - p.x
        dz == pos.z - p.z
    IN  /\ Abs(dx) < POWERUP_RANGE
        /\ Abs(dz) < POWERUP_RANGE
        /\ dx * dx + dz * dz < POWERUP_RANGE * POWERUP_RANGE

RECURSIVE CollectPowerUps(_, _, _, _, _)
\* this.state.powerUps.forEach(...) of one player: every power-up in range is
\* applied, deleted and announced; `left` are the power-ups still to visit
CollectPowerUps(st, s, pos, left, t) ==
    IF left = << >> THEN st
    ELSE LET p == Head(left)
         IN  IF InPickupRange(pos, p)
             THEN LET applied == ApplyPowerUp(st, s, p.type, t)
                      removed == [applied EXCEPT
                                    !.powerUps = SelectSeq(@, LAMBDA q : q.id # p.id),
                                    !.log = Append(@, Event("powerup-collected", s))]
                  IN  CollectPowerUps(removed, s, pos, Tail(left), t)
             ELSE CollectPowerUps(st, s, pos, Tail(left), t)

(***************************************************************************)
(* physicsUpdate, part 1: one player's update from the input queue         *)
(***************************************************************************)
SpawnX(team) == IF team = "red" THEN -Pos(6, 1) ELSE Pos(6, 1)
SpawnPos(team) == Vec(SpawnX(team), GROUND_Y, 0)

\* { x: 0, z: 0, jump: false, rotY: player.rotY }: no jumpRequestId, read as 0
DefaultInput(player) == Input(0, 0, 0, player.rotY, 0)

AppliedInputZeroed(player) ==
    IF player.inputQueue # << >> THEN Head(player.inputQueue)
    ELSE IF player.lastInput # << >>
         THEN [player.lastInput[1] EXCEPT !.x = 0, !.z = 0]
         ELSE DefaultInput(player)

\* the record the step applies: the head of the queue, else the last input
\* as it was consumed, else the default record
AppliedInput(player) ==
    IF player.inputQueue # << >> THEN Head(player.inputQueue)
    ELSE IF player.lastInput # << >> THEN player.lastInput[1]
         ELSE DefaultInput(player)

ConsumeInputTwo(player) ==
    IF player.inputQueue # << >>
    THEN [player EXCEPT !.inputQueue = IF Len(@) >= 2 THEN Tail(Tail(@)) ELSE << >>,
                        !.lastInput = << Head(player.inputQueue) >>]
    ELSE player

\* inputQueue.shift() and the lastInput bookkeeping
ConsumeInput(player) ==
    IF player.inputQueue # << >>
    THEN [player EXCEPT !.inputQueue = Tail(@),
                        !.lastInput = << Head(player.inputQueue) >>]
    ELSE player

\* PHYSICS.MOVE_SPEED * (player.speedMult || 1)
Speed(player) ==
    Vel(MOVE_SPEED * (IF player.speedMult = 0 THEN 100 ELSE player.speedMult), 100)

\* v + (target - v) * VELOCITY_SMOOTHING
Smooth(v, target) == v + MulDiv(target - v, VELOCITY_SMOOTHING, 100)

\* instant stop when no input, smooth otherwise: the new (vx, vz)
HorizontalVelocity(player, input, speed) ==
    IF input.x = 0 /\ input.z = 0
    THEN [vx |-> 0, vz |-> 0]
    ELSE [vx |-> Smooth(player.vx, input.x * speed),
          vz |-> Smooth(player.vz, input.z * speed)]

JumpFiresOnRepeat(player, jumpRequestId) ==
    /\ jumpRequestId >= player.lastProcessedJumpRequestId
    /\ jumpRequestId > 0
    /\ player.jumpCount < MAX_JUMPS

JumpFiresNoLimit(player, jumpRequestId) ==
    jumpRequestId > player.lastProcessedJumpRequestId

\* the jump edge trigger: a new request id and jumps left
JumpFires(player, jumpRequestId) ==
    /\ jumpRequestId > player.lastProcessedJumpRequestId
    /\ player.jumpCount < MAX_JUMPS

\* PHYSICS.JUMP_FORCE * (player.jumpMult || 1)
JumpForce(player) ==
    Vel(JUMP_FORCE * (IF player.jumpMult = 0 THEN 100 ELSE player.jumpMult), 100)

JumpVelocityNoDoubleScale(player) == JumpForce(player)

\* vy of a firing jump: full force for the first, scaled for the second
JumpVelocity(player) ==
    IF player.jumpCount = 0 THEN JumpForce(player)
    ELSE MulDiv(JumpForce(player), DOUBLE_JUMP_MULTIPLIER, 100)

ClampNone(v, bound) == v

\* Math.max(-bound, Math.min(bound, v))
Clamp(v, bound) == Max(-bound, Min(bound, v))

ForcedResetNoMove(player, body) ==
    [player |-> [player EXCEPT !.vx = 0, !.vy = 0, !.vz = 0, !.resetPosition = FALSE],
     body |-> body]

\* the forced-reset branch: the body is sent to the spawn, velocity zeroed, and
\* the rest of the update is skipped
ForcedReset(player, body) ==
    [player |-> [player EXCEPT !.vx = 0, !.vy = 0, !.vz = 0, !.resetPosition = FALSE],
     body |-> [body EXCEPT !.next = << SpawnPos(player.team) >>]]

\* movement, gravity, jump, ground snap, bounds and commit of one player whose
\* input has been taken; player is the player after the pickup check
Integrate(player, body, input, speed, tick, deltaTime) ==
    LET hv == HorizontalVelocity(player, input, speed)
        currentPos == body.pos
        newX0 == currentPos.x + DeltaPosAt(hv.vx, deltaTime)
        newZ0 == currentPos.z + DeltaPosAt(hv.vz, deltaTime)
        vy1 == player.vy - GravityStepAt(deltaTime)
        onGround == currentPos.y <= GROUND_Y + GROUND_CHECK_EPSILON /\ vy1 <= 0
        p1 == [player EXCEPT !.vx = hv.vx, !.vz = hv.vz, !.vy = vy1,
                             !.jumpCount = IF onGround THEN 0 ELSE @]
        fires == JumpFires(p1, input.jumpRequestId)
        p2 == IF fires
              THEN [p1 EXCEPT !.vy = JumpVelocity(p1),
                              !.jumpCount = @ + 1,
                              !.lastProcessedJumpRequestId = input.jumpRequestId]
              ELSE p1
        newY0 == currentPos.y + DeltaPosAt(p2.vy, deltaTime)
        snap == newY0 < GROUND_Y
        newY == IF snap THEN GROUND_Y ELSE newY0
        p3 == IF snap THEN [p2 EXCEPT !.vy = 0, !.jumpCount = 0] ELSE p2
        newX == Clamp(newX0, ARENA_HALF_WIDTH)
        newZ == Clamp(newZ0, ARENA_HALF_DEPTH)
    IN  [player |-> [p3 EXCEPT !.x = newX, !.y = newY, !.z = newZ,
                               !.rotY = input.rotY, !.tick = tick],
         body |-> [body EXCEPT !.next = << Vec(newX, newY, newZ) >>]]

\* the body of this.state.players.forEach in step 1, for session s
PlayerUpdate(st, s, tick, t, deltaTime) ==
    IF s \notin DOMAIN st.bodies THEN st
    ELSE LET input == AppliedInput(st.players[s])
             taken == [st EXCEPT !.players[s] = ConsumeInput(@)]
         IN  IF taken.players[s].resetPosition
             THEN LET r == ForcedReset(taken.players[s], taken.bodies[s])
                  IN  [taken EXCEPT !.players[s] = r.player, !.bodies[s] = r.body]
             ELSE LET speed == Speed(taken.players[s])
                      got == CollectPowerUps(taken, s, taken.bodies[s].pos,
                                             taken.powerUps, t)
                      r == Integrate(got.players[s], got.bodies[s], input, speed, tick,
                                     deltaTime)
                  IN  [got EXCEPT !.players[s] = r.player, !.bodies[s] = r.body]

RECURSIVE UpdatePlayers(_, _, _, _, _)
UpdatePlayers(st, order, tick, t, deltaTime) ==
    IF order = << >> THEN st
    ELSE UpdatePlayers(PlayerUpdate(st, Head(order), tick, t, deltaTime), Tail(order),
                       tick, t, deltaTime)

(***************************************************************************)
(* physicsUpdate, part 2: this.world.step()                                *)
(***************************************************************************)
\* The rigid-body engine is external.  Its step moves every kinematic body to
\* its pending translation; what it does to the ball is the outcome w of the
\* step: either the ball body is left as it is (kind "keep") or it gets the
\* translation and velocities of w (kind "set").
StepBodies(bodies) ==
    [s \in DOMAIN bodies |->
        IF bodies[s].next # << >>
        THEN [bodies[s] EXCEPT !.pos = bodies[s].next[1], !.next = << >>]
        ELSE bodies[s]]

StepBall(bb, w) ==
    IF w.kind = "keep" THEN bb ELSE [pos |-> w.pos, vel |-> w.vel, angvel |-> w.angvel]

Outcome(kind, pos, vel, angvel) == [kind |-> kind, pos |-> pos, vel |-> vel, angvel |-> angvel]
KeepBall == Outcome("keep", ZeroVec, ZeroVec, ZeroVec)
BallAt(pos, vel) == Outcome("set", pos, vel, ZeroVec)

(***************************************************************************)
(* physicsUpdate, part 3: handlePlayerBallCollisions                       *)
(***************************************************************************)
\* touch history: shift last to second-last iff the toucher is a new session
TouchAlways(touch, s) == [last |-> s, second |-> touch.last]

Touch(touch, s) ==
    IF touch.last # s THEN [last |-> s, second |-> touch.last] ELSE touch

\* ballBody.applyImpulse: the velocity gains impulse / mass
ApplyImpulse(bb, imp) ==
    [bb EXCEPT !.vel = Vec(@.x + MulDiv(imp.x, 1, BALL_MASS),
                           @.y + MulDiv(imp.y, 1, BALL_MASS),
                           @.z + MulDiv(imp.z, 1, BALL_MASS))]

\* the geometry and relative motion of one player against the ball, as
\* computed at the top of the forEach body (ballPos, ballVel are those read
\* before the loop)
Contact(player, body, ballPos, ballVel) ==
    LET playerRadius == IF player.giant THEN GIANT_RADIUS ELSE PLAYER_RADIUS
        combined == BALL_RADIUS + playerRadius
        dx == ballPos.x - body.pos.x
        dy == ballPos.y - body.pos.y
        dz == ballPos.z - body.pos.z
        close == Abs(dx) < combined /\ Abs(dy) < combined /\ Abs(dz) < combined
        distSq == IF close THEN dx * dx + dy * dy + dz * dz ELSE combined * combined
        dist == ISqrt(distSq)
        relVx == player.vx - ballVel.x
        relVy == player.vy - ballVel.y
        relVz == player.vz - ballVel.z
        relSq == relVx * relVx + relVy * relVy + relVz * relVz
        dot == relVx * dx + relVy * dy + relVz * dz
    IN  [ overlap |-> close /\ distSq < combined * combined,
          dx |-> dx, dy |-> dy, dz |-> dz, dist |-> dist,
          playerRadius |-> playerRadius,
          \* approachSpeed = relV . n, with n = d / (dist || 0.1)
          approachSpeed |-> IF dist = 0 THEN 0 ELSE MulDiv(dot, 1, dist),
          \* approachSpeed > 0, decided on the exact dot product
          approaching |-> distSq > 0 /\ dot > 0,
          \* dy > BALL_STABILITY_HEIGHT_MIN && ny > 0.5
          isOnHead |-> dy > Pos(3, 10) /\ 4 * dy * dy > distSq,
          \* relSpeed < BALL_STABILITY_VELOCITY_THRESHOLD
          isLowVelocity |-> relSq < Vel(15, 10) * Vel(15, 10),
          playerSpeed |-> ISqrt(player.vx * player.vx + player.vz * player.vz) ]

\* stability mode: the ball is carried on the player's head
Stabilise(bb, player, body, c, ballPos, ballVel) ==
    LET targetY == body.pos.y + c.playerRadius + BALL_RADIUS + Pos(5, 100)
    IN  [bb EXCEPT
           !.vel = Vec(player.vx, MulDiv(ballVel.y, 92, 100), player.vz),
           !.pos = Vec(ballPos.x + MulDiv(body.pos.x - ballPos.x, 3, 10),
                       Max(ballPos.y, targetY),
                       ballPos.z + MulDiv(body.pos.z - ballPos.z, 3, 10))]

\* the impulse of the impulse branch (approachSpeed > 0)
ContactImpulse(player, c) ==
    LET isRunning == c.playerSpeed > Vel(3, 1)
        \* (playerSpeed / 8) * PLAYER_BALL_VELOCITY_TRANSFER, else 0.5; in thousandths
        momentum == IF isRunning THEN MulDiv(c.playerSpeed, 650, Vel(8, 1)) ELSE 500
        \* approachDot > 0.5
        headOn == c.dist > 0
                  /\ 2 * (player.vx * c.dx + player.vz * c.dz) > c.dist * c.playerSpeed
        boost == IF headOn THEN 14 ELSE 10
        \* approachSpeed * BALL_MASS * (1 + PLAYER_BALL_RESTITUTION) * momentum * boost
        raw == MulDiv(MulDiv(MulDiv(c.approachSpeed * BALL_MASS, 185, 100), momentum, 1000),
                      boost, 10)
        mag == IF c.isOnHead THEN Min(raw, 2 * c.playerSpeed) ELSE Max(Vel(5, 1), raw)
        lift == IF player.giant THEN Vel(3, 1) ELSE Vel(5, 1)
    IN  Vec(MulDiv(c.dx, mag, c.dist),
            Max(Vel(5, 10), MulDiv(c.dy, mag, c.dist)) + lift,
            MulDiv(c.dz, mag, c.dist))

\* an impulse branch that is not guarded by approachSpeed > 0
CollidePlayerAnyApproach(st, s, ballPos, ballVel) ==
    IF s \notin DOMAIN st.bodies THEN st
    ELSE LET player == st.players[s]
             body == st.bodies[s]
             c == Contact(player, body, ballPos, ballVel)
         IN  IF ~c.overlap THEN st
             ELSE IF c.isOnHead /\ c.isLowVelocity
             THEN [st EXCEPT !.ballBody = Stabilise(@, player, body, c, ballPos, ballVel),
                             !.owner = s]
             ELSE [st EXCEPT !.ballBody = ApplyImpulse(@, ContactImpulse(player, c)),
                             !.log = Append(@, Event("ball-touched", s)),
                             !.touch = Touch(@, s),
                             !.owner = s]

\* the forEach body of handlePlayerBallCollisions for session s
CollidePlayer(st, s, ballPos, ballVel) ==
    IF s \notin DOMAIN st.bodies THEN st
    ELSE LET player == st.players[s]
             body == st.bodies[s]
             c == Contact(player, body, ballPos, ballVel)
         IN  IF ~c.overlap THEN st
             ELSE IF c.isOnHead /\ c.isLowVelocity
             THEN [st EXCEPT !.ballBody = Stabilise(@, player, body, c, ballPos, ballVel),
                             !.owner = s]
             ELSE IF c.approaching
             THEN [st EXCEPT !.ballBody = ApplyImpulse(@, ContactImpulse(player, c)),
                             !.log = Append(@, Event("ball-touched", s)),
                             !.touch = Touch(@, s),
                             !.owner = s]
             ELSE st

RECURSIVE CollidePlayers(_, _, _, _)
CollidePlayers(st, order, ballPos, ballVel) ==
    IF order = << >> THEN st
    ELSE CollidePlayers(CollidePlayer(st, Head(order), ballPos, ballVel),
                        Tail(order), ballPos, ballVel)

\* handlePlayerBallCollisions(): ballPos and ballVel are read once, before the loop
HandlePlayerBallCollisions(st, order) ==
    CollidePlayers(st, order, st.ballBody.pos, st.ballBody.vel)

(***************************************************************************)
(* physicsUpdate, part 4: explicit ball boundary enforcement               *)
(***************************************************************************)
\* -Math.abs(v) * restitution and +Math.abs(v) * restitution, in hundredths
BounceDown(v, rest) == -MulDiv(Abs(v), rest, 100)
BounceUp(v, rest) == MulDiv(Abs(v), rest, 100)

InGoalZoneNoHeight(pos) ==
    /\ Abs(pos.z) < GOAL_WIDTH \div 2 - BALL_RADIUS
    /\ Abs(pos.x) > GOAL_LINE_X

InGoalZoneBelowFloor(pos) ==
    /\ Abs(pos.z) < GOAL_WIDTH \div 2 - BALL_RADIUS
    /\ pos.y < BALL_RADIUS
    /\ Abs(pos.x) > GOAL_LINE_X

\* the allowed goal zone of the enforcer
InGoalZone(pos) ==
    /\ Abs(pos.z) < GOAL_WIDTH \div 2 - BALL_RADIUS
    /\ pos.y < GOAL_HEIGHT - BALL_RADIUS
    /\ Abs(pos.x) > GOAL_LINE_X

\* step 4 of physicsUpdate on the ball body
EnforceBoundaries(bb) ==
    LET pos == bb.pos
        vel == bb.vel
        maxX == ARENA_HALF_WIDTH - BALL_RADIUS
        maxZ == ARENA_HALF_DEPTH - BALL_RADIUS
        backX == GOAL_BACK_X - BALL_RADIUS
        goalPostZ == GOAL_WIDTH \div 2 - BALL_RADIUS + Pos(3, 10)
        inGoalZone == InGoalZone(pos)
        \* Z axis boundaries (always enforced)
        z1 == IF pos.z > maxZ THEN [p |-> maxZ, v |-> BounceDown(vel.z, 30), c |-> TRUE]
              ELSE IF pos.z < -maxZ THEN [p |-> -maxZ, v |-> BounceUp(vel.z, 30), c |-> TRUE]
              ELSE [p |-> pos.z, v |-> vel.z, c |-> FALSE]
        \* X axis boundaries
        x1 == IF ~inGoalZone
              THEN IF pos.x > maxX THEN [p |-> maxX, v |-> BounceDown(vel.x, 30), c |-> TRUE]
                   ELSE IF pos.x < -maxX THEN [p |-> -maxX, v |-> BounceUp(vel.x, 30), c |-> TRUE]
                   ELSE [p |-> pos.x, v |-> vel.x, c |-> FALSE]
              ELSE IF pos.x > backX THEN [p |-> backX, v |-> BounceDown(vel.x, 150), c |-> TRUE]
                   ELSE IF pos.x < -backX THEN [p |-> -backX, v |-> BounceUp(vel.x, 150), c |-> TRUE]
                   ELSE [p |-> pos.x, v |-> vel.x, c |-> FALSE]
        \* goal side posts, inside the goal zone only
        z2 == IF inGoalZone /\ pos.z > goalPostZ
              THEN [p |-> goalPostZ, v |-> BounceDown(vel.z, 30), c |-> TRUE]
              ELSE IF inGoalZone /\ pos.z < -goalPostZ
              THEN [p |-> -goalPostZ, v |-> BounceUp(vel.z, 30), c |-> TRUE]
              ELSE z1
        \* floor, then ceiling
        y1 == IF pos.y < BALL_RADIUS
              THEN [p |-> BALL_RADIUS, v |-> BounceUp(vel.y, 60), c |-> TRUE]
              ELSE [p |-> pos.y, v |-> vel.y, c |-> FALSE]
        y2 == IF pos.y > WALL_HEIGHT - BALL_RADIUS
              THEN [p |-> WALL_HEIGHT - BALL_RADIUS, v |-> BounceDown(vel.y, 10), c |-> TRUE]
              ELSE y1
        needsCorrection == x1.c \/ z2.c \/ y2.c
    IN  IF needsCorrection
        THEN [bb EXCEPT !.pos = Vec(x1.p, y2.p, z2.p), !.vel = Vec(x1.v, y2.v, z2.v)]
        ELSE bb

(***************************************************************************)
(* physicsUpdate, part 5: checkGoal                                        *)
(***************************************************************************)
CooldownActiveNever(t, last) == FALSE

\* Date.now() - this.lastGoalTime < GOAL_COOLDOWN
CooldownActive(t, last) == t - last < GOAL_COOLDOWN

InGoalNoHeight(pos) ==
    /\ Abs(pos.x) > GOAL_LINE_X + BALL_RADIUS
    /\ Abs(pos.z) < GOAL_WIDTH \div 2

\* ball fully past the goal line, within the posts and under the bar
InGoal(pos) ==
    /\ Abs(pos.x) > GOAL_LINE_X + BALL_RADIUS
    /\ Abs(pos.z) < GOAL_WIDTH \div 2
    /\ pos.y < GOAL_HEIGHT

ScoringTeamSwapped(pos) == IF pos.x > 0 THEN "blue" ELSE "red"

ScoringTeam(pos) == IF pos.x > 0 THEN "red" ELSE "blue"

AwardStatsAssistAnyTeam(ps, last, second) ==
    IF last # Null /\ last \in DOMAIN ps
    THEN LET scored == [ps EXCEPT ![last].goals = JsInc(@)]
         IN  IF second # Null /\ second \in DOMAIN ps /\ second # last
             THEN [scored EXCEPT ![second].assists = JsInc(@)]
             ELSE scored
    ELSE ps

\* "Award goal and assist": the players after the stats update
AwardStats(ps, last, second) ==
    IF last # Null /\ last \in DOMAIN ps
    THEN LET scored == [ps EXCEPT ![last].goals = JsInc(@)]
         IN  IF /\ second # Null
                /\ second \in DOMAIN ps
                /\ ps[second].team = ps[last].team
                /\ ps[second].sessionId # ps[last].sessionId
             THEN [scored EXCEPT ![second].assists = JsInc(@)]
             ELSE scored
    ELSE ps

CheckGoalScoresBoth(st, t) ==
    IF CooldownActive(t, st.lastGoalTime) THEN st
    ELSE IF ~InGoal(st.ballBody.pos) THEN st
    ELSE [st EXCEPT
            !.lastGoalTime = t,
            !.redScore = @ + 1,
            !.blueScore = @ + 1,
            !.log = Append(@, Event("goal-scored", ScoringTeam(st.ballBody.pos))),
            !.goalScoredCount = @ + 1,
            !.players = AwardStats(@, st.touch.last, st.touch.second),
            !.timers = Append(@, Timer("goalReset", t + GOAL_RESET_DELAY, Null, 0, 0))]

CheckGoalNoReset(st, t) ==
    IF CooldownActive(t, st.lastGoalTime) THEN st
    ELSE IF ~InGoal(st.ballBody.pos) THEN st
    ELSE LET team == ScoringTeam(st.ballBody.pos)
         IN  [st EXCEPT
                !.lastGoalTime = t,
                !.redScore = IF team = "red" THEN @ + 1 ELSE @,
                !.blueScore = IF team = "red" THEN @ ELSE @ + 1,
                !.log = Append(@, Event("goal-scored", team)),
                !.goalScoredCount = @ + 1,
                !.players = AwardStats(@, st.touch.last, st.touch.second)]

\* checkGoal() at wall-clock time t; st carries scores, lastGoalTime and count
CheckGoal(st, t) ==
    IF CooldownActive(t, st.lastGoalTime) THEN st
    ELSE IF ~InGoal(st.ballBody.pos) THEN st
    ELSE LET team == ScoringTeam(st.ballBody.pos)
         IN  [st EXCEPT
                !.lastGoalTime = t,
                !.redScore = IF team = "red" THEN @ + 1 ELSE @,
                !.blueScore = IF team = "red" THEN @ ELSE @ + 1,
                !.log = Append(@, Event("goal-scored", team)),
                !.goalScoredCount = @ + 1,
                !.players = AwardStats(@, st.touch.last, st.touch.second),
                !.timers = Append(@, Timer("goalReset", t + GOAL_RESET_DELAY, Null, 0, 0))]

(***************************************************************************)
(* physicsUpdate, part 6: publish the ball, limit its angular velocity     *)
(***************************************************************************)
PublishNoTick(b, bb, tick, owner) ==
    [b EXCEPT !.x = bb.pos.x, !.y = bb.pos.y, !.z = bb.pos.z,
              !.vx = bb.vel.x, !.vy = bb.vel.y, !.vz = bb.vel.z,
              !.ownerSessionId = owner]

Publish(b, bb, tick, owner) ==
    [b EXCEPT !.x = bb.pos.x, !.y = bb.pos.y, !.z = bb.pos.z,
              !.vx = bb.vel.x, !.vy = bb.vel.y, !.vz = bb.vel.z,
              !.tick = tick, !.ownerSessionId = owner]

\* angular speed above maxAv = 15 is scaled back to 15
LimitAngvel(bb) ==
    LET av == bb.angvel
        avSq == av.x * av.x + av.y * av.y + av.z * av.z
        maxAv == Vel(15, 1)
        len == ISqrt(avSq)
    IN  IF avSq > maxAv * maxAv
        THEN [bb EXCEPT !.angvel = Vec(MulDiv(av.x, maxAv, len), MulDiv(av.y, maxAv, len),
                                       MulDiv(av.z, maxAv, len))]
        ELSE bb

(***************************************************************************)
(* physicsUpdate(deltaTimeMs): the whole sim step, with world-step outcome w *)
(***************************************************************************)
PhysicsUpdateDelta(deltaTimeMs, w) ==
    /\ ~disposed
    /\ LET deltaTime == DeltaTime(deltaTimeMs)
           tick == currentTick + 1
           st0 == [ players |-> players, bodies |-> playerBodies, powerUps |-> powerUps,
                    ballBody |-> ballBody, timers |-> timers, log |-> << >>,
                    touch |-> [last |-> lastTouchSessionId, second |-> secondLastTouchSessionId],
                    owner |-> ball.ownerSessionId,
                    redScore |-> redScore, blueScore |-> blueScore,
                    lastGoalTime |-> lastGoalTime, goalScoredCount |-> goalScoredCount ]
           st1 == UpdatePlayers(st0, playerOrder, tick, now, deltaTime)
           st2 == [st1 EXCEPT !.bodies = StepBodies(@), !.ballBody = StepBall(@, w)]
           st3 == HandlePlayerBallCollisions(st2, playerOrder)
           st4 == [st3 EXCEPT !.ballBody = EnforceBoundaries(@)]
           st5 == CheckGoal(st4, now)
       IN  /\ currentTick' = tick
           /\ stateCurrentTick' = tick
           /\ players' = st5.players
           /\ playerBodies' = st5.bodies
           /\ powerUps' = st5.powerUps
           /\ ball' = Publish(ball, st5.ballBody, tick, st5.owner)
           /\ ballBody' = LimitAngvel(st5.ballBody)
           /\ timers' = st5.timers
           /\ log' = st5.log
           /\ lastTouchSessionId' = st5.touch.last
           /\ secondLastTouchSessionId' = st5.touch.second
           /\ redScore' = st5.redScore
           /\ blueScore' = st5.blueScore
           /\ lastGoalTime' = st5.lastGoalTime
           /\ goalScoredCount' = st5.goalScoredCount
    /\ UNCHANGED <<playerOrder, timer, gamePhase, timerInterval, now, roomVars>>

\* the sim step called with the period of the simulation interval as its delta
PhysicsStep(w) == PhysicsUpdateDelta(PHYSICS_TICK_RATE, w)

\* the sim step within the MaxSteps steps a behaviour covers
PhysicsUpdate(w) == currentTick < MaxSteps /\ PhysicsStep(w)

\* physicsUpdate(deltaTimeMs) when this.world.step() throws: the tick is
\* counted and the players are updated, the rest of the step does not run, and
\* the exception leaves physicsUpdate and the simulation callback, neither of
\* which has a try or disconnects the room
PhysicsUpdateThrows ==
    /\ ~disposed
    /\ currentTick < MaxSteps
    /\ LET tick == currentTick + 1
           st0 == [ players |-> players, bodies |-> playerBodies, powerUps |-> powerUps,
                    ballBody |-> ballBody, timers |-> timers, log |-> << >>,
                    touch |-> [last |-> lastTouchSessionId, second |-> secondLastTouchSessionId],
                    owner |-> ball.ownerSessionId,
                    redScore |-> redScore, blueScore |-> blueScore,
                    lastGoalTime |-> lastGoalTime, goalScoredCount |-> goalScoredCount ]
           st1 == UpdatePlayers(st0, playerOrder, tick, now, DeltaTime(PHYSICS_TICK_RATE))
       IN  /\ currentTick' = tick
           /\ stateCurrentTick' = tick
           /\ players' = st1.players
           /\ playerBodies' = st1.bodies
           /\ powerUps' = st1.powerUps
           /\ timers' = st1.timers
           /\ log' = st1.log
    /\ UNCHANGED <<playerOrder, ballBody, ball, matchVars, goalVars, now, roomVars>>

(***************************************************************************)
(* Teams, join and leave                                                   *)
(***************************************************************************)
TeamCountWithSelf(ps, team, exclude) ==
    Cardinality({s \in DOMAIN ps :
                    IF team = "blue" THEN ps[s].team = "blue" ELSE ps[s].team # "blue"})

\* getTeamCounts(excludeSessionId): every team value other than 'blue' counts as red
TeamCount(ps, team, exclude) ==
    Cardinality({s \in DOMAIN ps :
                    /\ s # exclude
                    /\ (IF team = "blue" THEN ps[s].team = "blue" ELSE ps[s].team # "blue")})

ChooseTeamAsRequested(ps, requestedTeam, exclude) ==
    IF requestedTeam = "blue" THEN "blue" ELSE "red"

\* chooseTeam(requestedTeam, excludeSessionId)
ChooseTeam(ps, requestedTeam, exclude) ==
    LET desired == IF requestedTeam = "blue" THEN "blue" ELSE "red"
        other == IF desired = "red" THEN "blue" ELSE "red"
    IN  IF TeamCount(ps, desired, exclude) < 2 THEN desired
        ELSE IF TeamCount(ps, other, exclude) < 2 THEN other
        ELSE desired

MAX_CLIENTS == 4
EMPTY_DISPOSE_DELAY == 30000

WithoutKindKeepsAll(ts, kind) == ts

\* timers without the pending empty-room timeout (emptyDisposeTimeout.clear())
WithoutKind(ts, kind) == SelectSeq(ts, LAMBDA tm : tm.kind # kind)

\* onJoin(client, options) for a fresh session s asking for team `team`
OnJoin(s, team) ==
    /\ ~disposed
    /\ s \notin seen
    /\ Cardinality(clients) < MAX_CLIENTS
    /\ LET actual == ChooseTeam(players, team, Null)
       IN  /\ players' = [x \in DOMAIN players \cup {s} |->
                            IF x = s THEN NewPlayer(s, actual, SpawnX(actual)) ELSE players[x]]
           /\ playerBodies' = [x \in DOMAIN playerBodies \cup {s} |->
                            IF x = s THEN NewBody(SpawnX(actual), GROUND_Y, 0)
                            ELSE playerBodies[x]]
           /\ log' = << Event("player-joined", s) >>
    /\ playerOrder' = Append(playerOrder, s)
    /\ clients' = clients \cup {s}
    /\ seen' = seen \cup {s}
    /\ emptyDisposeTimeout' = FALSE
    /\ timers' = IF emptyDisposeTimeout THEN WithoutKind(timers, "emptyDispose") ELSE timers
    /\ UNCHANGED <<ballBody, ball, powerUps, matchVars, tickVars, goalVars, now, disposed,
                   registryVars>>

\* onLeave(client): the client has already been removed from this.clients
\* a leave that forgets the body
OnLeaveKeepsBody(s) ==
    /\ ~disposed
    /\ s \in clients
    /\ clients' = clients \ {s}
    /\ players' = [x \in DOMAIN players \ {s} |-> players[x]]
    /\ playerOrder' = SelectSeq(playerOrder, LAMBDA x : x # s)
    /\ log' = << Event("player-left", s) >>
    /\ IF clients \ {s} = {} /\ ~emptyDisposeTimeout
       THEN /\ emptyDisposeTimeout' = TRUE
            /\ timers' = Append(timers, Timer("emptyDispose", now + EMPTY_DISPOSE_DELAY, Null, 0, 0))
       ELSE UNCHANGED <<emptyDisposeTimeout, timers>>
    /\ UNCHANGED <<worldVars, matchVars, tickVars, goalVars, now, seen, disposed, registryVars>>

\* onLeave(client, consented)
OnLeave(s) ==
    /\ ~disposed
    /\ s \in clients
    /\ clients' = clients \ {s}
    /\ playerBodies' = [x \in DOMAIN playerBodies \ {s} |-> playerBodies[x]]
    /\ players' = [x \in DOMAIN players \ {s} |-> players[x]]
    /\ playerOrder' = SelectSeq(playerOrder, LAMBDA x : x # s)
    /\ log' = << Event("player-left", s) >>
    /\ IF clients \ {s} = {} /\ ~emptyDisposeTimeout
       THEN /\ emptyDisposeTimeout' = TRUE
            /\ timers' = Append(timers, Timer("emptyDispose", now + EMPTY_DISPOSE_DELAY, Null, 0, 0))
       ELSE UNCHANGED <<emptyDisposeTimeout, timers>>
    /\ UNCHANGED <<ballBody, ball, powerUps, matchVars, tickVars, goalVars, now, seen, disposed,
                   registryVars>>

\* data.team || player.team: an absent or empty team means the player's own
RequestedTeam(player, team) == IF team = "" THEN player.team ELSE team

\* handleJoinTeam(client, data) with data.team = team ("" when absent)
HandleJoinTeam(s, team) ==
    /\ ~disposed
    /\ IF s \in DOMAIN players
       THEN LET actual == ChooseTeam(players, RequestedTeam(players[s], team), s)
            IN  /\ players' = [players EXCEPT
                                 ![s] = IF s \in DOMAIN playerBodies
                                        THEN [@ EXCEPT !.team = actual, !.x = SpawnX(actual),
                                                       !.y = GROUND_Y, !.z = 0]
                                        ELSE [@ EXCEPT !.team = actual]]
                /\ playerBodies' = IF s \in DOMAIN playerBodies
                                   THEN [playerBodies EXCEPT ![s].next = << SpawnPos(actual) >>]
                                   ELSE playerBodies
       ELSE UNCHANGED <<players, playerBodies>>
    /\ log' = << >>
    /\ UNCHANGED <<playerOrder, ballBody, ball, powerUps, matchVars, tickVars, goalVars,
                   roomVars, timers, now>>

(***************************************************************************)
(* handleUpdateState                                                       *)
(***************************************************************************)
UpdatableKeysAndReset == {"invisible", "giant", "resetPosition"}

\* ['invisible', 'giant']
UpdatableKeys == {"invisible", "giant"}

\* handleUpdateState(client, data) with data = { key, value }: the value is
\* stored as it comes, and the body's collider is not touched
HandleUpdateState(s, key, value) ==
    /\ ~disposed
    /\ players' = IF s \in DOMAIN players /\ key \in UpdatableKeys
                  THEN [players EXCEPT ![s][key] = value]
                  ELSE players
    /\ log' = << >>
    /\ UNCHANGED <<playerOrder, worldVars, matchVars, tickVars, goalVars, roomVars, timers,
                   now>>

(***************************************************************************)
(* handleKick                                                              *)
(***************************************************************************)
\* dist < PHYSICS.KICK_RANGE between the player's body and the ball
InKickRange(bodyPos, ballPos) ==
    LET dx == ballPos.x - bodyPos.x
        dy == ballPos.y - bodyPos.y
        dz == ballPos.z - bodyPos.z
    IN  /\ Abs(dx) < KICK_RANGE /\ Abs(dy) < KICK_RANGE /\ Abs(dz) < KICK_RANGE
        /\ dx * dx + dy * dy + dz * dz < KICK_RANGE * KICK_RANGE

\* handleKick(client, data) with data = the impulse imp
HandleKick(s, imp) ==
    /\ ~disposed
    /\ IF /\ s \in DOMAIN players
          /\ s \in DOMAIN playerBodies
          /\ InKickRange(playerBodies[s].pos, ballBody.pos)
       THEN LET touch == Touch([last |-> lastTouchSessionId,
                                second |-> secondLastTouchSessionId], s)
            IN  /\ ballBody' = ApplyImpulse(ballBody,
                                   Vec(imp.x, imp.y + KICK_VERTICAL_BOOST, imp.z))
                /\ log' = << Event("ball-kicked", s) >>
                /\ ball' = [ball EXCEPT !.ownerSessionId = s]
                /\ players' = [players EXCEPT ![s].shots = JsInc(@)]
                /\ lastTouchSessionId' = touch.last
                /\ secondLastTouchSessionId' = touch.second
       ELSE /\ log' = << >>
            /\ UNCHANGED <<ballBody, ball, players, lastTouchSessionId,
                           secondLastTouchSessionId>>
    /\ UNCHANGED <<playerOrder, playerBodies, powerUps, matchVars, tickVars, lastGoalTime,
                   roomVars, timers, now>>

(***************************************************************************)
(* resetPositions, resetGame, endGame, start-game and end-game             *)
(***************************************************************************)
\* resetPositions() on the players: those with a body are flagged for the
\* physics loop and their published pose and velocity are reset
ResetPlayers(ps, bodies) ==
    [s \in DOMAIN ps |->
        IF s \in DOMAIN bodies
        THEN [ps[s] EXCEPT !.resetPosition = TRUE,
                           !.x = SpawnX(ps[s].team), !.y = GROUND_Y, !.z = 0,
                           !.vx = 0, !.vy = 0, !.vz = 0]
        ELSE ps[s]]

\* resetPositions(): everything it assigns
ResetPositions ==
    /\ ballBody' = NewBallBody
    /\ ball' = [ball EXCEPT !.ownerSessionId = ""]
    /\ lastTouchSessionId' = Null
    /\ secondLastTouchSessionId' = Null
    /\ players' = ResetPlayers(players, playerBodies)

\* resetGame(), except for gamePhase and the log, which the callers complete
ResetGame ==
    /\ redScore' = 0
    /\ blueScore' = 0
    /\ timer' = MATCH_TIMER_START
    /\ goalScoredCount' = 0
    /\ ResetPositions

WinnerRedOnTie(red, blue) == IF red >= blue THEN "red" ELSE "blue"

\* the winner endGame announces
Winner(red, blue) == IF red > blue THEN "red" ELSE IF blue > red THEN "blue" ELSE "draw"

\* a countdown interval is `current` (n = 1) while this.timerInterval refers to it
IsCurrentCountdown(tm) == tm.kind = "countdown" /\ tm.n = 1

\* endGame() applied to the timers ts at time t: this.timerInterval.clear(),
\* then the delayed resetGame
EndGameTimers(ts, t) ==
    Append(SelectSeq(ts, LAMBDA tm : ~IsCurrentCountdown(tm)),
           Timer("gameReset", t + END_GAME_RESET_DELAY, Null, 0, 0))

IsHostAnyPlayer(s) == \E i \in DOMAIN playerOrder : playerOrder[i] = s

\* the host is the first key of state.players
IsHost(s) == playerOrder # << >> /\ playerOrder[1] = s

\* clearInterval(this.timerInterval) is the global function and does not stop
\* a clock interval: the old countdown stays scheduled, no longer referenced
Orphan(ts) == [i \in DOMAIN ts |-> IF ts[i].kind = "countdown" THEN [ts[i] EXCEPT !.n = 0] ELSE ts[i]]

\* handleStartGame(client)
HandleStartGame(s) ==
    /\ ~disposed
    /\ IF IsHost(s)
       THEN /\ ResetGame
            /\ gamePhase' = "playing"
            /\ timerInterval' = "interval"
            /\ timers' = Append(Orphan(timers), Timer("countdown", now + TIMER_INTERVAL, Null, 0, 1))
            /\ log' = << Event("game-reset", Null), Event("game-started", Null) >>
       ELSE /\ log' = << >>
            /\ UNCHANGED <<players, ballBody, ball, matchVars, goalVars, timers>>
    /\ UNCHANGED <<playerOrder, playerBodies, powerUps, tickVars, lastGoalTime, roomVars, now>>

\* handleEndGame(client)
HandleEndGame(s) ==
    /\ ~disposed
    /\ IF IsHost(s)
       THEN /\ gamePhase' = "ended"
            /\ timerInterval' = Null
            /\ timers' = EndGameTimers(timers, now)
            /\ log' = << Event("game-over", Winner(redScore, blueScore)) >>
       ELSE /\ log' = << >>
            /\ UNCHANGED <<gamePhase, timerInterval, timers>>
    /\ UNCHANGED <<players, playerOrder, worldVars, redScore, blueScore, timer,
                   goalScoredCount, tickVars, goalVars, roomVars, now>>

(***************************************************************************)
(* The room clock: timers fire in scheduling order once they are due       *)
(***************************************************************************)
Due(tm) == tm.due <= now

\* the index of the first due timer, 0 if none
FirstDue ==
    IF \E i \in DOMAIN timers : Due(timers[i])
    THEN CHOOSE i \in DOMAIN timers :
            /\ Due(timers[i])
            /\ \A j \in DOMAIN timers : Due(timers[j]) => i <= j
    ELSE 0

Remove(ts, i) == SubSeq(ts, 1, i - 1) \o SubSeq(ts, i + 1, Len(ts))

\* the timeout of checkGoal: resetPositions and a game-reset broadcast
FireGoalReset ==
    /\ ~disposed
    /\ FirstDue # 0
    /\ timers[FirstDue].kind = "goalReset"
    /\ ResetPositions
    /\ timers' = Remove(timers, FirstDue)
    /\ log' = << Event("game-reset", Null) >>
    /\ UNCHANGED <<playerOrder, playerBodies, powerUps, matchVars, tickVars, lastGoalTime,
                   roomVars, now>>

\* the timeout of endGame: resetGame
FireGameReset ==
    /\ ~disposed
    /\ FirstDue # 0
    /\ timers[FirstDue].kind = "gameReset"
    /\ ResetGame
    /\ gamePhase' = "waiting"
    /\ timers' = Remove(timers, FirstDue)
    /\ log' = << Event("game-reset", Null) >>
    /\ UNCHANGED <<playerOrder, playerBodies, powerUps, timerInterval, tickVars, lastGoalTime,
                   roomVars, now>>

\* one run of a countdown interval's callback
FireCountdown ==
    /\ ~disposed
    /\ FirstDue # 0
    /\ timers[FirstDue].kind = "countdown"
    /\ LET i == FirstDue
           again == [timers EXCEPT ![i].due = @ + TIMER_INTERVAL]
       IN  IF gamePhase = "playing"
           THEN /\ timer' = timer - 1
                /\ IF timer - 1 <= 0
                   THEN /\ gamePhase' = "ended"
                        /\ timerInterval' = Null
                        /\ timers' = EndGameTimers(again, now)
                        /\ log' = << Event("game-over", Winner(redScore, blueScore)) >>
                   ELSE /\ timers' = again
                        /\ log' = << >>
                        /\ UNCHANGED <<gamePhase, timerInterval>>
           ELSE /\ timers' = again
                /\ log' = << >>
                /\ UNCHANGED <<timer, gamePhase, timerInterval>>
    /\ UNCHANGED <<players, playerOrder, worldVars, redScore, blueScore, goalScoredCount,
                   tickVars, goalVars, roomVars>>
    /\ UNCHANGED now

\* the wall clock advances by d ms once every due timer has run
Tick(d) ==
    /\ ~disposed
    /\ FirstDue = 0
    /\ now + d <= StartTime + MaxClock * 1000
    /\ now' = now + d
    /\ log' = << >>
    /\ UNCHANGED <<players, playerOrder, worldVars, matchVars, tickVars, goalVars, roomVars,
                   timers>>

(***************************************************************************)
(* spawnPowerUp                                                            *)
(***************************************************************************)
POWERUP_DESPAWN == 15000

PowerUp(id, type, x, z) == [id |-> id, type |-> type, x |-> x, z |-> z]

\* ids a despawn timeout still remembers
PendingIds == {timers[i].id : i \in {i \in DOMAIN timers : timers[i].kind = "despawn"}}

SpawnPowerUpNoCap(id, type, x, z) ==
    /\ ~disposed
    /\ id \notin PendingIds
    /\ powerUps' = Append(powerUps, PowerUp(id, type, x, z))
    /\ timers' = Append(timers, Timer("despawn", now + POWERUP_DESPAWN, Null, id, 0))
    /\ log' = << >>
    /\ UNCHANGED <<players, playerOrder, playerBodies, ballBody, ball, matchVars, tickVars,
                   goalVars, roomVars, now>>

\* spawnPowerUp(): the random id, type and place are the inputs; ids are fresh
SpawnPowerUp(id, type, x, z) ==
    /\ ~disposed
    /\ id \notin PendingIds
    /\ IF Len(powerUps) >= MAX_POWERUPS
       THEN UNCHANGED <<powerUps, timers>>
       ELSE /\ powerUps' = Append(powerUps, PowerUp(id, type, x, z))
            /\ timers' = Append(timers, Timer("despawn", now + POWERUP_DESPAWN, Null, id, 0))
    /\ log' = << >>
    /\ UNCHANGED <<players, playerOrder, playerBodies, ballBody, ball, matchVars, tickVars,
                   goalVars, roomVars, now>>

\* onDispose() (the second definition, which replaces the first): the current
\* countdown interval is cleared; powerUpInterval is not among the timers
OnDisposeTimers(ts) == SelectSeq(ts, LAMBDA tm : ~IsCurrentCountdown(tm))

\* the timeout of onLeave: the room disconnects if it is still empty; the
\* handle in this.emptyDisposeTimeout is left as it is
FireEmptyDispose ==
    /\ ~disposed
    /\ FirstDue # 0
    /\ timers[FirstDue].kind = "emptyDispose"
    /\ IF clients = {}
       THEN /\ disposed' = TRUE
            /\ timers' = OnDisposeTimers(Remove(timers, FirstDue))
       ELSE /\ timers' = Remove(timers, FirstDue)
            /\ UNCHANGED disposed
    /\ log' = << >>
    /\ UNCHANGED <<players, playerOrder, worldVars, matchVars, tickVars, goalVars, clients,
                   seen, emptyDisposeTimeout, registryVars, now>>

FireDespawnOldest ==
    /\ ~disposed
    /\ FirstDue # 0
    /\ timers[FirstDue].kind = "despawn"
    /\ powerUps' = IF powerUps = << >> THEN powerUps ELSE Tail(powerUps)
    /\ timers' = Remove(timers, FirstDue)
    /\ log' = << >>
    /\ UNCHANGED <<players, playerOrder, playerBodies, ballBody, ball, matchVars, tickVars,
                   goalVars, roomVars, now>>

\* the despawn timeout of spawnPowerUp: the power-up goes if it is still there
FireDespawn ==
    /\ ~disposed
    /\ FirstDue # 0
    /\ timers[FirstDue].kind = "despawn"
    /\ powerUps' = SelectSeq(powerUps, LAMBDA q : q.id # timers[FirstDue].id)
    /\ timers' = Remove(timers, FirstDue)
    /\ log' = << >>
    /\ UNCHANGED <<players, playerOrder, playerBodies, ballBody, ball, matchVars, tickVars,
                   goalVars, roomVars, now>>

(***************************************************************************)
(* The timers of applyPowerUp                                              *)
(***************************************************************************)
TARGET_SPEED == 200        \* targetSpeed = 2, in hundredths
RAMP_UP_STEPS == 10
RAMP_DOWN_STEPS == 20
RAMP_UP_DELAY == 50        \* rampUpTime / rampUpSteps, ms
RAMP_DOWN_DELAY == 50      \* rampDownTime / rampDownSteps, ms

\* a closure changes the Player object it captured; the change shows in the
\* room state while that player is still in state.players
SetCaptured(ps, s, field, value) ==
    IF s \in DOMAIN ps THEN [ps EXCEPT ![s][field] = value] ELSE ps

\* one run of rampUpInterval; the timer's n is the closure's currentStep
FireRampUp ==
    /\ ~disposed
    /\ FirstDue # 0
    /\ timers[FirstDue].kind = "rampUp"
    /\ LET i == FirstDue
           currentStep == timers[i].n + 1
           last == currentStep >= RAMP_UP_STEPS
           mult == IF last THEN TARGET_SPEED
                   ELSE 100 + MulDiv(TARGET_SPEED - 100, currentStep, RAMP_UP_STEPS)
       IN  /\ players' = SetCaptured(players, timers[i].s, "speedMult", mult)
           /\ timers' = IF last THEN Remove(timers, i)
                        ELSE [timers EXCEPT ![i].due = @ + RAMP_UP_DELAY, ![i].n = currentStep]
    /\ log' = << >>
    /\ UNCHANGED <<playerOrder, worldVars, matchVars, tickVars, goalVars, roomVars, now>>

\* the timeout at duration - rampDownTime: it starts rampDownInterval
FireRampDownStart ==
    /\ ~disposed
    /\ FirstDue # 0
    /\ timers[FirstDue].kind = "rampDownStart"
    /\ timers' = Append(Remove(timers, FirstDue),
                        Timer("rampDown", now + RAMP_DOWN_DELAY, timers[FirstDue].s, 0, 0))
    /\ log' = << >>
    /\ UNCHANGED <<players, playerOrder, worldVars, matchVars, tickVars, goalVars, roomVars,
                   now>>

\* one run of rampDownInterval; the timer's n is the closure's downStep
FireRampDown ==
    /\ ~disposed
    /\ FirstDue # 0
    /\ timers[FirstDue].kind = "rampDown"
    /\ LET i == FirstDue
           downStep == timers[i].n + 1
           last == downStep >= RAMP_DOWN_STEPS
           mult == IF last THEN 100
                   ELSE TARGET_SPEED - MulDiv(TARGET_SPEED - 100, downStep, RAMP_DOWN_STEPS)
       IN  /\ players' = SetCaptured(players, timers[i].s, "speedMult", mult)
           /\ timers' = IF last THEN Remove(timers, i)
                        ELSE [timers EXCEPT ![i].due = @ + RAMP_DOWN_DELAY, ![i].n = downStep]
    /\ log' = << >>
    /\ UNCHANGED <<playerOrder, worldVars, matchVars, tickVars, goalVars, roomVars, now>>

\* the expiry timeouts of jump, kick and invisible: the field goes back to its
\* default, whatever else was collected meanwhile
ExpiryField(kind) ==
    CASE kind = "jumpExpire" -> "jumpMult"
      [] kind = "kickExpire" -> "kickMult"
      [] kind = "invisibleExpire" -> "invisible"

ExpiryDefault(kind) == IF kind = "invisibleExpire" THEN FALSE ELSE 100

FireExpire ==
    /\ ~disposed
    /\ FirstDue # 0
    /\ timers[FirstDue].kind \in {"jumpExpire", "kickExpire", "invisibleExpire"}
    /\ players' = SetCaptured(players, timers[FirstDue].s, ExpiryField(timers[FirstDue].kind),
                              ExpiryDefault(timers[FirstDue].kind))
    /\ timers' = Remove(timers, FirstDue)
    /\ log' = << >>
    /\ UNCHANGED <<playerOrder, worldVars, matchVars, tickVars, goalVars, roomVars, now>>

\* the expiry timeout of giant: giant = false, and collider 0 of the body is
\* replaced by cuboid(PLAYER_RADIUS, 0.2, PLAYER_RADIUS) lifted by 0.2
FireGiantExpire ==
    /\ ~disposed
    /\ FirstDue # 0
    /\ timers[FirstDue].kind = "giantExpire"
    /\ LET s == timers[FirstDue].s
       IN  /\ players' = SetCaptured(players, s, "giant", FALSE)
           /\ playerBodies' = IF s \in DOMAIN playerBodies
                              THEN [playerBodies EXCEPT ![s].collider = "cuboid"]
                              ELSE playerBodies
    /\ timers' = Remove(timers, FirstDue)
    /\ log' = << >>
    /\ UNCHANGED <<playerOrder, ballBody, ball, powerUps, matchVars, tickVars, goalVars,
                   roomVars, now>>

\* the room clock runs on to the moment its next pending timer is due
NextDue == CHOOSE d \in {timers[i].due : i \in DOMAIN timers} :
                \A i \in DOMAIN timers : d <= timers[i].due

RunClock ==
    /\ ~disposed
    /\ timers # << >>
    /\ FirstDue = 0
    /\ now' = NextDue
    /\ log' = << >>
    /\ UNCHANGED <<players, playerOrder, worldVars, matchVars, tickVars, goalVars, roomVars,
                   timers>>

(***************************************************************************)
(* The room after onCreate                                                 *)
(***************************************************************************)
RoomId == "r1"

\* Map.set(k, v)
MapSet(map, k, v) == [x \in DOMAIN map \cup {k} |-> IF x = k THEN v ELSE map[x]]

\* registerPrivateRoom(roomId, code) applied to the two maps
RegisterPrivateRoom(roomId, code) ==
    /\ codeToRoomId' = MapSet(codeToRoomId, code, roomId)
    /\ roomIdToCode' = MapSet(roomIdToCode, roomId, code)

\* onCreate of a public room: no code, nothing registered
PublicRoom ==
    /\ privateCode = Null
    /\ codeToRoomId = << >>
    /\ roomIdToCode = << >>

\* onCreate of a private room with the code it asked for or generated
PrivateRoom(code) ==
    /\ privateCode = code
    /\ codeToRoomId = MapSet(<< >>, code, RoomId)
    /\ roomIdToCode = MapSet(<< >>, RoomId, code)

InitRoom ==
    /\ players = << >>
    /\ playerOrder = << >>
    /\ playerBodies = << >>
    /\ ballBody = NewBallBody
    /\ ball = NewBallState
    /\ powerUps = << >>
    /\ redScore = 0
    /\ blueScore = 0
    /\ timer = MATCH_TIMER_START
    /\ gamePhase = "waiting"
    /\ currentTick = 0
    /\ stateCurrentTick = 0
    /\ lastGoalTime = 0
    /\ lastTouchSessionId = Null
    /\ secondLastTouchSessionId = Null
    /\ timerInterval = Null
    /\ timers = << >>
    /\ now = StartTime
    /\ log = << >>
    /\ goalScoredCount = 0
    /\ clients = {}
    /\ seen = {}
    /\ emptyDisposeTimeout = FALSE
    /\ disposed = FALSE

Init == InitRoom /\ PublicRoom

(***************************************************************************)
(* SpecInput: the input pipeline of one client under a running sim loop    *)
(***************************************************************************)
\* a still ball lying on the pitch: what the engine step leaves behind
RestingBall == BallAt(Vec(0, BALL_RADIUS, 0), ZeroVec)

LastTick(s) == IF s \in DOMAIN players THEN players[s].lastReceivedTick ELSE 0

\* ticks a client sends one at a time: old and small ones in any order, or the next
SingleTicks(s) == (0 .. MaxSmallTick) \cup {t \in {LastTick(s) + 1} : t <= MaxTick}

\* a burst of BurstLen records with consecutive new ticks, sent newest first
Burst(s) == [i \in 1 .. BurstLen |-> Input(LastTick(s) + BurstLen + 1 - i, 0, 0, 0, 0)]

\* batches a client sends: two small ticks in any order, or a burst
Batches(s) ==
    {<< Input(a, 0, 0, 0, 0), Input(b, 0, 0, 0, 0) >> : a, b \in 0 .. MaxSmallTick}
    \cup {b \in {Burst(s)} : LastTick(s) + BurstLen <= MaxTick}

InputClients == {"s1"}

NextInput ==
    \/ \E s \in InputClients : OnJoin(s, "red")
    \/ \E s \in InputClients : \E b \in Batches(s) : HandleInputBatch(s, b)
    \/ \E s \in InputClients : \E t \in SingleTicks(s) :
            HandleInputSingle(s, Input(t, 0, 0, 0, 0))
    \/ PhysicsUpdate(RestingBall)

SpecInput == Init /\ [][NextInput]_vars

Ticks(queue) == {queue[i].tick : i \in DOMAIN queue}

StrictlyIncreasing(queue) ==
    \A i \in 1 .. Len(queue) - 1 : queue[i].tick < queue[i + 1].tick

\* what one client message does to a player's record, whatever the message was
InputOrderStep(p, q) ==
    LET added == Ticks(q.inputQueue) \ Ticks(p.inputQueue)
    IN  /\ q.lastReceivedTick >= p.lastReceivedTick
        /\ \A t \in added : p.lastReceivedTick < t /\ t <= q.lastReceivedTick
        /\ q.lastReceivedTick > p.lastReceivedTick =>
                /\ q.inputQueue # << >>
                /\ q.inputQueue[Len(q.inputQueue)].tick = q.lastReceivedTick
        /\ StrictlyIncreasing(q.inputQueue)

\* what processInput does with every record a client could send next: small
\* ticks, and the ticks around lastReceivedTick
AcceptsNewerOnly(p) ==
    \A t \in (0 .. MaxSmallTick) \cup
             {t \in p.lastReceivedTick - 1 .. p.lastReceivedTick + 1 : t >= 0} :
        LET input == Input(t, 0, 0, 0, 0)
            q == HandleSingle(p, input)
        IN  IF t > p.lastReceivedTick
            THEN q.inputQueue = Append(p.inputQueue, input) /\ q.lastReceivedTick = t
            ELSE q = p

\* C1: an input record is accepted exactly when its tick is greater than the
\* player's lastReceivedTick, which then becomes that tick; so the ticks of a
\* queue are strictly increasing in queue order and lastReceivedTick never
\* decreases.
C1_NewerInputsOnly ==
    /\ [](\A s \in DOMAIN players : AcceptsNewerOnly(players[s]))
    /\ [][\A s \in DOMAIN players \cap DOMAIN players' :
                InputOrderStep(players[s], players'[s])]_vars

\* a queue that skipped a tick: records with ticks 0 and 1 arrived after tick 2
C1_Witness ==
    \E s \in DOMAIN players :
        LET queue == players[s].inputQueue
        IN  /\ Len(queue) >= 2
            /\ queue[1].tick = MaxSmallTick
            /\ queue[2].tick = MaxSmallTick + 1
            /\ players[s].lastReceivedTick = queue[Len(queue)].tick

\* C2: after any input message the queue holds at most INPUT_QUEUE_MAX records.
\* The single-record branch of handleInput never caps the queue, so this fails.
C2_QueueCapped ==
    \A s \in DOMAIN players : Len(players[s].inputQueue) <= INPUT_QUEUE_MAX

(***************************************************************************)
(* SpecDrain: two clients' queues drained by the sim loop                  *)
(***************************************************************************)
DrainClients == {"s1", "s2"}

SmallInputs == {Input(t, 0, 0, 0, 0) : t \in 0 .. MaxSmallTick}

NextDrain ==
    \/ \E s \in DrainClients : OnJoin(s, "red")
    \/ \E s \in DrainClients : \E a, b \in SmallInputs : HandleInputBatch(s, << a, b >>)
    \/ \E s \in DrainClients : \E a \in SmallInputs : HandleInputSingle(s, a)
    \/ \E s \in DrainClients : timerInterval = Null /\ HandleStartGame(s)
    \/ PhysicsUpdate(RestingBall)

SpecDrain == Init /\ [][NextDrain]_vars

\* C4: a sim step removes exactly the head record from every non-empty queue
\* and leaves an empty queue empty.
C4_OneRecordPerStep ==
    [][currentTick' # currentTick =>
            \A s \in DOMAIN players :
                /\ s \in DOMAIN players'
                /\ players'[s].inputQueue =
                        IF players[s].inputQueue = << >> THEN << >>
                        ELSE Tail(players[s].inputQueue)]_vars

\* after a step, one player has consumed a record and still holds another,
\* while the other player's queue was empty throughout
C4_Witness ==
    /\ currentTick >= 1
    /\ \E s \in DOMAIN players : \E r \in DOMAIN players :
            /\ players[s].lastInput # << >>
            /\ players[s].inputQueue # << >>
            /\ players[s].lastInput[1].tick < players[s].inputQueue[1].tick
            /\ players[r].lastReceivedTick = 0
            /\ players[r].inputQueue = << >>
            /\ players[r].tick = currentTick

(***************************************************************************)
(* SpecJump: one player moving and jumping                                 *)
(***************************************************************************)
Jumper == "s1"

\* the client sends its next record when its queue has run empty, or stays silent
JumpInputs ==
    {Input(LastTick(Jumper) + 1, x, 0, 0, j) : x \in {0, 1}, j \in 0 .. MaxJumpId}

NextJump ==
    \/ OnJoin(Jumper, "red")
    \/ /\ powerUps = << >>
       /\ timers = << >>
       /\ SpawnPowerUp(1, "jump", SpawnX("red"), 0)
    \/ /\ Jumper \in DOMAIN players
       /\ players[Jumper].inputQueue = << >>
       /\ \E input \in JumpInputs : HandleInputSingle(Jumper, input)
    \/ timerInterval = Null /\ HandleStartGame(Jumper)
    \/ PhysicsUpdate(RestingBall)

SpecJump == Init /\ [][NextJump]_vars

SimStep == currentTick' # currentTick

\* the record a step reads for player p, as the claims describe it
RecordOnStep(p) ==
    IF p.inputQueue # << >> THEN p.inputQueue[1]
    ELSE IF p.lastInput # << >> THEN p.lastInput[1]
    ELSE Input(0, 0, 0, p.rotY, 0)

\* a jump on a sim step shows in vy: without one, vy falls by the gravity step
\* or is set to 0
Jumped(p, q) == SimStep /\ q.vy > 0 /\ q.vy # p.vy - GravityStep

\* jumpCount after the on-ground reset at the start of the vertical update
GroundedJumpCount(p, body) ==
    IF body.pos.y <= GROUND_Y + GROUND_CHECK_EPSILON /\ p.vy - GravityStep <= 0
    THEN 0 ELSE p.jumpCount

\* C3 as stated: on a step with an empty queue the applied record has x and z
\* zeroed, so the player's horizontal velocity is zero after the step.
C3_ZeroedOnEmptyQueue ==
    [][SimStep =>
            \A s \in DOMAIN players :
                players[s].inputQueue = << >> =>
                    players'[s].vx = 0 /\ players'[s].vz = 0]_vars

\* C3, amended: on a step with an empty queue the applied record is the last
\* consumed input unchanged (the zero record when there is none); horizontal
\* velocity is zero after the step only when that record's x and z are zero or
\* the step is a forced reset, and is smoothed toward x * speed, z * speed
\* otherwise; a jump on such a step carries the record's jumpRequestId.
C3_ReplayOnEmptyQueue ==
    [][SimStep =>
            \A s \in DOMAIN players :
                players[s].inputQueue = << >> =>
                    LET p == players[s]
                        q == players'[s]
                        rec == RecordOnStep(p)
                    IN  /\ q.lastInput = p.lastInput
                        /\ IF p.resetPosition \/ (rec.x = 0 /\ rec.z = 0)
                           THEN q.vx = 0 /\ q.vz = 0
                           ELSE /\ q.vx = Smooth(p.vx, rec.x * Speed(p))
                                /\ q.vz = Smooth(p.vz, rec.z * Speed(p))
                        /\ Jumped(p, q) => q.lastProcessedJumpRequestId = rec.jumpRequestId
       ]_vars

\* the only record ever sent was a moving one, and the player has moved for two
\* steps: the second step replayed it
C3_Witness ==
    /\ Jumper \in DOMAIN players
    /\ players[Jumper].lastReceivedTick = 1
    /\ players[Jumper].inputQueue = << >>
    /\ players[Jumper].lastInput # << >>
    /\ players[Jumper].vx = Smooth(Smooth(0, Speed(players[Jumper])), Speed(players[Jumper]))
    /\ players[Jumper].vx > 0

\* C5: each jumpRequestId fires at most one jump: a jump fires only for an id
\* greater than lastProcessedJumpRequestId, which then becomes that id and
\* never decreases, so no later record with an id not greater fires.
C5_JumpIdFiresOnce ==
    [][\A s \in DOMAIN players \cap DOMAIN players' :
            LET p == players[s]
                q == players'[s]
                rec == RecordOnStep(p)
            IN  /\ q.lastProcessedJumpRequestId >= p.lastProcessedJumpRequestId
                /\ ~SimStep => q.vy = p.vy \/ q.vy = 0
                /\ Jumped(p, q) =>
                        /\ rec.jumpRequestId > p.lastProcessedJumpRequestId
                        /\ q.lastProcessedJumpRequestId = rec.jumpRequestId
       ]_vars

\* one record was sent, its jump fired, and the step after replayed the same
\* id without a second jump
C5_Witness ==
    /\ Jumper \in DOMAIN players
    /\ players[Jumper].lastReceivedTick = 1
    /\ players[Jumper].inputQueue = << >>
    /\ players[Jumper].lastInput # << >>
    /\ players[Jumper].lastInput[1].jumpRequestId = players[Jumper].lastProcessedJumpRequestId
    /\ players[Jumper].lastProcessedJumpRequestId > 0
    /\ players[Jumper].jumpCount = 1
    /\ players[Jumper].vy = JumpForce(players[Jumper]) - GravityStep

\* what C6 says of one player's step from p to q
JumpContract(p, q, body) ==
    LET rec == RecordOnStep(p)
        count == GroundedJumpCount(p, body)
    IN  /\ Jumped(p, q) <=> /\ rec.jumpRequestId > p.lastProcessedJumpRequestId
                            /\ count < 2
        /\ Jumped(p, q) =>
                /\ q.lastProcessedJumpRequestId = rec.jumpRequestId
                /\ q.jumpCount = count + 1
                /\ count = 0 => q.vy * 100 = Vel(JUMP_FORCE, 1) * q.jumpMult
                /\ count = 1 => q.vy * 10000 = Vel(JUMP_FORCE, 1) * q.jumpMult * 80

\* C6 as stated: on every sim step a player jumps iff the applied record's id
\* is new and jumpCount (after the on-ground reset) is below 2, with the
\* stated effects.
C6_JumpIff ==
    [][SimStep =>
            \A s \in DOMAIN players :
                JumpContract(players[s], players'[s], playerBodies[s])]_vars

\* C6, amended: the equivalence and its effects hold on every sim step of a
\* player that is not a forced reset; on a forced-reset step (resetPosition
\* set) the update returns before the jump logic and no jump fires.
C6_JumpIffUnlessReset ==
    [][SimStep =>
            \A s \in DOMAIN players :
                IF players[s].resetPosition
                THEN /\ ~Jumped(players[s], players'[s])
                     /\ players'[s].lastProcessedJumpRequestId =
                            players[s].lastProcessedJumpRequestId
                ELSE JumpContract(players[s], players'[s], playerBodies[s])]_vars

\* a second jump in the air under the jump power-up
C6_Witness ==
    /\ Jumper \in DOMAIN players
    /\ players[Jumper].jumpMult = 150
    /\ players[Jumper].jumpCount = 2
    /\ players[Jumper].lastProcessedJumpRequestId >= 2
    /\ players[Jumper].vy * 10000 = Vel(JUMP_FORCE, 1) * 150 * 80

(***************************************************************************)
(* SpecGoal: the ball sent around the goals while the clock runs           *)
(***************************************************************************)
PastLine == GOAL_LINE_X + BALL_RADIUS + 1

\* where the engine step leaves the ball: in either goal, on the line, at bar
\* height, at post width, beyond the end wall beside the goal, and midfield
GoalBalls ==
    { BallAt(Vec(PastLine, BALL_RADIUS, 0), ZeroVec),
      BallAt(Vec(-PastLine, BALL_RADIUS, 0), ZeroVec),
      BallAt(Vec(PastLine - 1, BALL_RADIUS, 0), ZeroVec),
      BallAt(Vec(PastLine, GOAL_HEIGHT, 0), ZeroVec),
      BallAt(Vec(-PastLine, BALL_RADIUS, GOAL_WIDTH \div 2), ZeroVec),
      BallAt(Vec(ARENA_HALF_WIDTH + BALL_RADIUS, BALL_RADIUS, Pos(2, 1)), ZeroVec),
      RestingBall }

\* the clock is looked at on every second, and one millisecond before the
\* second on which a cooldown ends
ClockSteps ==
    IF now % 1000 # 0 THEN {1}
    ELSE IF now + 1000 = lastGoalTime + GOAL_COOLDOWN THEN {999, 1000}
    ELSE {1000}

NextGoal ==
    \/ \E w \in GoalBalls : PhysicsUpdate(w)
    \/ \E d \in ClockSteps : Tick(d)
    \/ FireGoalReset

SpecGoal == Init /\ [][NextGoal]_vars

(***************************************************************************)
(* SpecMatch: goals across start-game, end-game and the delayed resets     *)
(***************************************************************************)
Host == "s1"

MatchBalls ==
    { BallAt(Vec(PastLine, BALL_RADIUS, 0), ZeroVec),
      RestingBall }

NextMatch ==
    \/ currentTick = 0 /\ now = StartTime /\ OnJoin(Host, "red")
    \/ \E w \in MatchBalls : PhysicsUpdate(w)
    \/ Tick(TIMER_INTERVAL)
    \/ FireGoalReset
    \/ gamePhase = "waiting" /\ HandleStartGame(Host)
    \/ FireCountdown
    \/ /\ gamePhase = "playing"
       /\ WithoutKind(timers, "gameReset") = timers
       /\ HandleEndGame(Host)
    \/ FireGameReset

SpecMatch == Init /\ [][NextMatch]_vars

ScoreSum == redScore + blueScore

\* the goal-scored broadcasts of a step
GoalEvents(events) == Len(SelectSeq(events, LAMBDA e : e.type = "goal-scored"))

\* C7: two goals are at least GOAL_COOLDOWN ms apart: while less than that has
\* passed since the last goal a sim step changes no score and announces no
\* goal, and a step that scores sets lastGoalTime to the current time.
C7_GoalCooldown ==
    [][SimStep =>
            /\ now - lastGoalTime < 5000 =>
                    /\ redScore' = redScore /\ blueScore' = blueScore
                    /\ lastGoalTime' = lastGoalTime
                    /\ GoalEvents(log') = 0
            /\ GoalEvents(log') > 0 =>
                    lastGoalTime' = now /\ now - lastGoalTime >= 5000]_vars

\* a second goal stands, scored exactly GOAL_COOLDOWN ms after the first, and
\* a step in between found the ball in the goal without scoring
C7_Witness ==
    /\ ScoreSum = 2
    /\ lastGoalTime = StartTime + GOAL_COOLDOWN
    /\ currentTick = 3

\* the goal test as the claim words it, on the ball after boundary enforcement
BallInGoal(pos) ==
    /\ Abs(pos.x) > Pos(116, 10)
    /\ Abs(pos.z) < Pos(25, 10)
    /\ pos.y < Pos(4, 1)

\* C8: when the cooldown has elapsed, a sim step scores iff the ball, after
\* boundary enforcement, has |x| > 11.6, |z| < 2.5 and y < 4; then exactly one
\* score goes up by one: red's when x > 0, blue's otherwise.
C8_GoalIff ==
    [][SimStep /\ now - lastGoalTime >= 5000 =>
            IF BallInGoal(ballBody'.pos)
            THEN IF ballBody'.pos.x > 0
                 THEN redScore' = redScore + 1 /\ blueScore' = blueScore
                 ELSE blueScore' = blueScore + 1 /\ redScore' = redScore
            ELSE redScore' = redScore /\ blueScore' = blueScore]_vars

\* both teams have scored, the last goal by blue, and the ball lies in
\* blue's scoring goal
C8_Witness ==
    /\ redScore = 1
    /\ blueScore = 1
    /\ lastGoalTime = now
    /\ BallInGoal(ballBody.pos)
    /\ ballBody.pos.x < 0

\* the step is a run of resetGame: start-game by the host, or the delayed
\* reset after the end of a game
ResetGameStep ==
    \/ \E i \in DOMAIN log' : log'[i].type = "game-started"
    \/ FirstDue # 0 /\ timers[FirstDue].kind = "gameReset" /\ Len(timers') < Len(timers)

\* C9: redScore + blueScore equals the number of goal-scored broadcasts since
\* the last resetGame: the sum is 0 after resetGame and otherwise grows on
\* every step by the number of goal-scored events the step broadcasts.
C9_ScoreIsGoalCount ==
    /\ [](ScoreSum = goalScoredCount)
    /\ [][IF ResetGameStep
          THEN redScore' = 0 /\ blueScore' = 0
          ELSE redScore' + blueScore' = ScoreSum + GoalEvents(log')]_vars

\* a goal was scored and the resetGame after the end of the game has wiped it
C9_Witness ==
    /\ ScoreSum = 0
    /\ goalScoredCount = 0
    /\ lastGoalTime >= StartTime
    /\ gamePhase = "waiting"
    /\ now >= StartTime + END_GAME_RESET_DELAY

(***************************************************************************)
(* SpecAttrib: two players kick the ball before it enters a goal           *)
(***************************************************************************)
Kickers == {"s1", "s2"}

\* the ball within kick range of the red spawn, of the blue spawn, in a goal,
\* and at rest in midfield
AttribBalls ==
    { BallAt(Vec(SpawnX("red") + Pos(2, 1), BALL_RADIUS, 0), ZeroVec),
      BallAt(Vec(SpawnX("blue") - Pos(2, 1), BALL_RADIUS, 0), ZeroVec),
      BallAt(Vec(PastLine, BALL_RADIUS, 0), ZeroVec),
      RestingBall }

\* kicks that have landed since the engine last placed the ball at rest: each
\* adds the vertical boost to the ball's velocity
KicksSinceStep == ballBody.vel.y \div (KICK_VERTICAL_BOOST \div BALL_MASS)

NextAttrib ==
    \/ \E s \in Kickers : \E team \in {"red", "blue"} : currentTick = 0 /\ OnJoin(s, team)
    \/ \E s \in Kickers : KicksSinceStep < MaxKicks /\ HandleKick(s, ZeroVec)
    \/ \E s \in Kickers : OnLeave(s)
    \/ \E w \in AttribBalls : PhysicsUpdate(w)

SpecAttrib == Init /\ [][NextAttrib]_vars

\* a statistic went up by one, counting a statistic never written as zero
PlusOne(a, b) == b.t = "number" /\ b.v = (IF a.t = "number" THEN a.v ELSE 0) + 1

\* C10: when a goal is awarded, the last toucher's goals go up by one if that
\* player is still in the match, the second-last toucher's assists go up by
\* one iff that player is in the match, on the scorer's team and another
\* session, and no statistic changes when the last toucher is absent.
\* PlayerState never initialises goals, assists or shots, so goals++ stores
\* NaN and the first part fails.
C10_GoalAndAssistCredited ==
    [][SimStep /\ GoalEvents(log') > 0 =>
            LET last == lastTouchSessionId
                second == secondLastTouchSessionId
                assisted == /\ last \in DOMAIN players
                            /\ second \in DOMAIN players
                            /\ players[second].team = players[last].team
                            /\ second # last
            IN  \A s \in DOMAIN players :
                    /\ IF s = last
                       THEN PlusOne(players[s].goals, players'[s].goals)
                       ELSE players'[s].goals = players[s].goals
                    /\ IF s = second /\ assisted
                       THEN PlusOne(players[s].assists, players'[s].assists)
                       ELSE players'[s].assists = players[s].assists]_vars

(***************************************************************************)
(* SpecTeam: sessions join, leave and ask for a team                       *)
(***************************************************************************)
\* session ids are opaque and never reused: they are handed out in this order
JoinOrder == << "s1", "s2", "s3", "s4", "s5" >>

\* options.team / data.team as clients send it; "" stands for an absent team
TeamRequests == {"red", "blue", "green", ""}

NextTeam ==
    \/ \E team \in TeamRequests :
            /\ Cardinality(seen) < Len(JoinOrder)
            /\ OnJoin(JoinOrder[Cardinality(seen) + 1], team)
    \/ \E s \in Sessions : OnLeave(s)
    \/ \E s \in Sessions : \E team \in TeamRequests : HandleJoinTeam(s, team)

SpecTeam == Init /\ [][NextTeam]_vars

TeamSize(team) == Cardinality({s \in DOMAIN players : players[s].team = team})

\* C11: with at most four connected sessions, after any joins, leaves and
\* join-team messages each of the teams red and blue has at most two players.
C11_TeamsAtMostTwo ==
    Cardinality(clients) <= 4 =>
        /\ TeamSize("red") <= 2
        /\ TeamSize("blue") <= 2
        /\ DOMAIN players = clients

\* four players, two a side, after a leave, a later join and a join-team
C11_Witness ==
    /\ Cardinality(clients) = 4
    /\ Cardinality(seen) = 5
    /\ TeamSize("red") = 2
    /\ TeamSize("blue") = 2
    /\ \E s \in DOMAIN playerBodies : playerBodies[s].next # << >>

\* players on `team` other than session s
Others(team, s) == Cardinality({x \in DOMAIN players \ {s} : players[x].team = team})

\* what C12 says of the team chosen for session s asking for `requested`
TeamChoiceRule(requested, s, actual) ==
    LET want == IF requested = "blue" THEN "blue" ELSE "red"
        opposite == IF want = "blue" THEN "red" ELSE "blue"
    IN  /\ Others(want, s) < 2 => actual = want
        /\ Others(want, s) >= 2 /\ Others(opposite, s) < 2 => actual = opposite

\* C12: the team choice returns the requested team when fewer than two other
\* players are on it, the opposite team when the requested one has two others
\* and the opposite fewer than two; a request other than 'blue' counts as
\* 'red'.  Checked for every session (joining or already a player) and every
\* request in every reachable roster, and on the team a joining player gets.
C12_TeamChoice ==
    /\ [](\A s \in Sessions : \A r \in TeamRequests :
              TeamChoiceRule(r, s, ChooseTeam(players, r, s)))
    /\ [][\A s \in DOMAIN players' \ DOMAIN players :
              \E r \in {"red", "blue"} : TeamChoiceRule(r, s, players'[s].team)]_vars

\* red holds two players and blue one: a third session asking for red is
\* sent to blue, while a red player asking for red stays red
C12_Witness ==
    /\ TeamSize("red") = 2
    /\ TeamSize("blue") = 1
    /\ \E s \in Sessions \ DOMAIN players : ChooseTeam(players, "red", s) = "blue"
    /\ \E s \in DOMAIN players :
            /\ players[s].team = "red"
            /\ ChooseTeam(players, "green", s) = "red"
            /\ playerBodies[s].next # << >>

(***************************************************************************)
(* SpecBounds: the engine leaves the ball anywhere, in or out of the arena *)
(***************************************************************************)
\* coordinates on, just inside, just outside and far beyond every limit the
\* enforcer tests (one position unit is 1/1800 m)
BoundaryXs ==
    LET m == {0, GOAL_LINE_X, GOAL_LINE_X + 1,
              ARENA_HALF_WIDTH - BALL_RADIUS, ARENA_HALF_WIDTH - BALL_RADIUS + 1,
              GOAL_BACK_X - BALL_RADIUS, GOAL_BACK_X - BALL_RADIUS + 1, Pos(20, 1)}
    IN  m \cup {-x : x \in m}

BoundaryYs ==
    {-Pos(1, 1), BALL_RADIUS - 1, BALL_RADIUS,
     GOAL_HEIGHT - BALL_RADIUS - 1, GOAL_HEIGHT - BALL_RADIUS,
     WALL_HEIGHT - BALL_RADIUS, WALL_HEIGHT - BALL_RADIUS + 1, Pos(12, 1)}

BoundaryZs ==
    LET m == {0, GOAL_WIDTH \div 2 - BALL_RADIUS - 1, GOAL_WIDTH \div 2 - BALL_RADIUS,
              GOAL_WIDTH \div 2, ARENA_HALF_DEPTH - BALL_RADIUS,
              ARENA_HALF_DEPTH - BALL_RADIUS + 1, Pos(12, 1)}
    IN  m \cup {-z : z \in m}

BoundarySpeeds == {-Vel(3, 1), 0, Vel(3, 1)}

\* the ball resting on the head of a player standing at the red spawn
BallOnHead == BallAt(Vec(SpawnX("red"), GROUND_Y + Pos(1, 1), 0), ZeroVec)

BoundaryBalls ==
    {BallAt(Vec(x, y, z), Vec(v, v, v)) :
        x \in BoundaryXs, y \in BoundaryYs, z \in BoundaryZs, v \in BoundarySpeeds}
    \cup {BallOnHead}

\* the first step finds the ball wherever the engine threw it; the following
\* steps find it where the step before left it
NextBounds ==
    \/ currentTick = 0 /\ OnJoin("s1", "red")
    \/ \E w \in BoundaryBalls \cup {KeepBall} :
            /\ w = KeepBall <=> currentTick >= 1
            /\ PhysicsUpdate(w)

SpecBounds == Init /\ [][NextBounds]_vars

\* the envelope of C13
BallWithin(pos) ==
    /\ Abs(pos.x) <= Pos(17, 1) - BALL_RADIUS
    /\ BALL_RADIUS <= pos.y
    /\ pos.y <= Pos(10, 1) - BALL_RADIUS
    /\ \/ Abs(pos.x) <= Pos(145, 10) - BALL_RADIUS
       \/ Abs(pos.z) < Pos(25, 10) /\ pos.y < Pos(4, 1)

WORLD_GRAVITY == 10

\* the dynamic ball one engine step after it was released at rest at (0, 2, 0):
\* it has fallen under the world's gravity
FallingBall ==
    BallAt(Vec(0, Pos(2, 1) - DeltaPos(Vel(WORLD_GRAVITY, TICK_RATE)), 0),
           Vec(0, -Vel(WORLD_GRAVITY, TICK_RATE), 0))

\* where the engine step leaves the ball: falling from the kick-off spot,
\* within reach of the red spawn, or in a goal
ResetBalls ==
    { FallingBall,
      BallAt(Vec(SpawnX("red") + Pos(2, 1), BALL_RADIUS, 0), Vec(Vel(1, 1), 0, 0)),
      BallAt(Vec(PastLine, BALL_RADIUS, 0), ZeroVec) }

ResetClients == {"s1", "s2"}

\* each client holds the stick to the right from its first record on
MoveInputs(s) == {Input(1, 1, 0, 0, 0)}

NextReset ==
    \/ currentTick = 0 /\ OnJoin("s1", "red")
    \/ currentTick = 0 /\ OnJoin("s2", "blue")
    \/ \E s \in ResetClients :
            /\ s \in DOMAIN players
            /\ currentTick = 0
            /\ \E input \in MoveInputs(s) : HandleInputSingle(s, input)
    \/ KicksSinceStep < 1 /\ HandleKick("s1", ZeroVec)
    \/ \E w \in ResetBalls : PhysicsUpdate(w)
    \/ timerInterval = Null /\ HandleStartGame("s1")
    \/ timers # << >> /\ timers[1].kind = "goalReset" /\ Tick(GOAL_RESET_DELAY)
    \/ FireGoalReset

SpecReset == Init /\ [][NextReset]_vars

\* the handler that ran last was resetGame or the goal timeout: both broadcast
\* game-reset right after resetPositions
JustReset == \E i \in DOMAIN log : log[i].type = "game-reset"

AtSpawn(p) ==
    /\ p.x = (IF p.team = "red" THEN -Pos(6, 1) ELSE Pos(6, 1))
    /\ p.y = Pos(1, 10)
    /\ p.z = 0
    /\ p.vx = 0 /\ p.vy = 0 /\ p.vz = 0

BodyAtSpawn(p, body) ==
    body.pos = Vec(IF p.team = "red" THEN -Pos(6, 1) ELSE Pos(6, 1), Pos(1, 10), 0)

BallAtKickOff(bb) ==
    /\ bb.pos = Vec(0, Pos(2, 1), 0)
    /\ bb.vel = ZeroVec
    /\ bb.angvel = ZeroVec

\* C15 as stated: the sim step that follows resetPositions ends with the ball
\* at (0, 2, 0) at rest, every player at the team spawn at rest, the touch
\* history empty and no ball owner.
C15_CanonicalAfterStep ==
    [][SimStep /\ JustReset =>
            /\ BallAtKickOff(ballBody')
            /\ \A s \in DOMAIN players' :
                    AtSpawn(players'[s]) /\ BodyAtSpawn(players'[s], playerBodies'[s])
            /\ lastTouchSessionId' = Null
            /\ secondLastTouchSessionId' = Null
            /\ ball'.ownerSessionId = ""]_vars

\* C15, amended: resetPositions itself leaves the ball at (0, 2, 0) at rest,
\* the touch history and owner empty, and every player published at the team
\* spawn at rest and flagged; the next sim step moves every flagged player's
\* body to the team spawn, keeps the player at rest there and clears the flag.
\* The ball is by then wherever the engine step took it, and the touch history
\* and owner stay empty unless that step's contact pass touched the ball.
C15_CanonicalAfterReset ==
    /\ [][JustReset' =>
            /\ BallAtKickOff(ballBody')
            /\ lastTouchSessionId' = Null
            /\ secondLastTouchSessionId' = Null
            /\ ball'.ownerSessionId = ""
            /\ \A s \in DOMAIN players' :
                    AtSpawn(players'[s]) /\ players'[s].resetPosition]_vars
    /\ [][SimStep =>
            /\ \A s \in DOMAIN players :
                    players[s].resetPosition =>
                        /\ AtSpawn(players'[s])
                        /\ BodyAtSpawn(players'[s], playerBodies'[s])
                        /\ ~players'[s].resetPosition
            /\ JustReset /\ ~(\E i \in DOMAIN log' : log'[i].type = "ball-touched") =>
                    /\ lastTouchSessionId' = Null
                    /\ secondLastTouchSessionId' = Null]_vars

\* both players had run from their spawns when the reset after a goal ran; the
\* step after it has put them back while the ball has fallen
C15_Witness ==
    /\ currentTick = 3
    /\ redScore = 1
    /\ now = StartTime + GOAL_RESET_DELAY
    /\ \A s \in ResetClients :
            /\ s \in DOMAIN players
            /\ AtSpawn(players[s])
            /\ BodyAtSpawn(players[s], playerBodies[s])
            /\ players[s].lastInput # << >>
            /\ players[s].lastInput[1].x = 1
            /\ ~players[s].resetPosition
    /\ ballBody.pos.y < Pos(2, 1)
    /\ ballBody.vel.y < 0

(***************************************************************************)
(* Power-ups: spawn, pickup, ramps, expiry and despawn                     *)
(***************************************************************************)
\* Object.keys(this.POWER_UP_TYPES)
POWER_UP_TYPES == {"speed", "kick", "jump", "invisible", "giant"}

MaxPowerUpIds == 4         \* power-up ids a behaviour hands out
\* ms between the two pickup moments of a behaviour: a third of an effect
PickupGap == POWERUP_DURATION \div 3
PowerUpIds == 1 .. MaxPowerUpIds

\* the random id of spawnPowerUp: the smallest one no despawn timeout remembers
FreshId == CHOOSE id \in PowerUpIds \ PendingIds : \A j \in PowerUpIds \ PendingIds : id <= j

\* the power-up type an effect timer belongs to
TimerType(kind) ==
    CASE kind \in {"rampUp", "rampDownStart", "rampDown"} -> "speed"
      [] kind = "jumpExpire" -> "jump"
      [] kind = "kickExpire" -> "kick"
      [] kind = "invisibleExpire" -> "invisible"
      [] kind = "giantExpire" -> "giant"
      [] OTHER -> ""

\* the power-up types on the field or in effect
TypesInPlay ==
    ({powerUps[i].type : i \in DOMAIN powerUps}
        \cup {TimerType(timers[i].kind) : i \in DOMAIN timers}) \ {""}

MaxTypes == 1              \* power-up types that meet in one behaviour
PickupMoments == {StartTime, StartTime + PickupGap}

\* One red player stands on the red spawn, where every power-up appears.
\* Power-ups appear and sim steps (which collect them) run at the two pickup
\* moments; after them the clock only runs its timers out.
NextPower ==
    \/ currentTick = 0 /\ OnJoin("s1", "red")
    \/ \E type \in POWER_UP_TYPES :
            /\ now \in PickupMoments
            /\ PowerUpIds \ PendingIds # {}
            /\ Cardinality(TypesInPlay \cup {type}) <= MaxTypes
            /\ SpawnPowerUp(FreshId, type, SpawnX("red"), 0)
    \/ now \in PickupMoments /\ PhysicsUpdate(KeepBall)
    \/ now = StartTime /\ Tick(PickupGap)
    \/ RunClock
    \/ FireDespawn
    \/ FireRampUp
    \/ FireRampDownStart
    \/ FireRampDown
    \/ FireExpire
    \/ FireGiantExpire

SpecPower == Init /\ [][NextPower]_vars

\* the expiry timeout of an effect of player s that is still ahead
Ahead(kind, s) == \E i \in DOMAIN timers :
                        timers[i].kind = kind /\ timers[i].s = s /\ timers[i].due > now

\* the ramp-up of a speed pickup of s is over and its ramp-down has not begun
SpeedHeld(s) ==
    /\ Ahead("rampDownStart", s)
    /\ ~(\E i \in DOMAIN timers : timers[i].kind = "rampUp" /\ timers[i].s = s)

\* C16: pickups of the same type are last-write-wins: the effect of a pickup
\* at t2 lasts without interruption until t2 + 15 s, whatever was collected
\* before it.  While the expiry of a pickup is still ahead, the player has the
\* effect (for speed: between the end of the last ramp-up and the start of the
\* last ramp-down the multiplier is 2).
C16_LastPickupWins ==
    \A s \in DOMAIN players :
        /\ Ahead("jumpExpire", s) => players[s].jumpMult = 150
        /\ Ahead("kickExpire", s) => players[s].kickMult = 200
        /\ Ahead("invisibleExpire", s) => players[s].invisible
        /\ Ahead("giantExpire", s) => players[s].giant
        /\ SpeedHeld(s) => players[s].speedMult = TARGET_SPEED

PowerUpIdsOf(ps) == {ps[i].id : i \in DOMAIN ps}

\* C17: the match never holds more than 3 power-ups, and no step taken with 3
\* present (a spawn tick among them) brings in a power-up that was not there.
C17_AtMostThreePowerUps ==
    /\ [](Len(powerUps) <= 3)
    /\ [][Len(powerUps) = 3 => PowerUpIdsOf(powerUps') \subseteq PowerUpIdsOf(powerUps)]_vars

\* three power-ups lie on the field and a fourth id is free for the next spawn
\* tick, which leaves the field as it is
C17_Witness ==
    /\ Len(powerUps) = 3
    /\ Cardinality(PendingIds) = 3
    /\ PowerUpIds \ PendingIds # {}
    /\ ENABLED SpawnPowerUp(FreshId, "speed", SpawnX("red"), 0)

\* The room clock is ticked by the simulation interval for as long as the room
\* lives, so a pending timer becomes due and a due timer runs.
ClockStep ==
    \/ RunClock
    \/ FireDespawn
    \/ FireRampUp
    \/ FireRampDownStart
    \/ FireRampDown
    \/ FireExpire
    \/ FireGiantExpire

SpecPowerLive == SpecPower /\ WF_vars(ClockStep)

PowerPlayers == {"s1"}

\* the player's multipliers and flags are at their defaults
EffectsOff(s) ==
    /\ players[s].speedMult = 100
    /\ players[s].jumpMult = 100
    /\ players[s].kickMult = 100
    /\ ~players[s].invisible
    /\ ~players[s].giant

\* the body carries the collider createPlayerBody gave it
NormalCollider(s) == s \in DOMAIN playerBodies => playerBodies[s].collider = "ball"

\* the last sim step saw s collect a power-up
PickedUp(s) == \E i \in DOMAIN log : log[i] = Event("powerup-collected", s)

\* C18: every power-up effect ends.  Unless the player keeps collecting for
\* ever, from some moment on the multipliers are 1, the flags are false and
\* the body has its normal collider again.
C18_EffectsEnd ==
    \A s \in PowerPlayers :
        \/ []<>PickedUp(s)
        \/ <>[](s \in DOMAIN players => EffectsOff(s) /\ NormalCollider(s))

(***************************************************************************)
(* start-game and end-game from the host and from everybody else           *)
(***************************************************************************)
HostOrder == << "s1", "s2", "s3" >>
HostClients == {HostOrder[i] : i \in DOMAIN HostOrder}

\* Three clients join in turn and leave at will; any connected client sends
\* start-game or end-game; the ball is shot into the blue goal once and the
\* clock runs the countdown and the delayed resets.
NextHost ==
    \/ /\ Cardinality(seen) < Len(HostOrder)
       /\ currentTick = 0
       /\ OnJoin(HostOrder[Cardinality(seen) + 1], "")
    \/ \E s \in HostClients : OnLeave(s)
    \/ \E s \in HostClients :
            /\ s \in clients
            /\ WithoutKind(timers, "countdown") = timers
            /\ HandleStartGame(s)
    \/ \E s \in HostClients :
            /\ s \in clients
            /\ WithoutKind(timers, "gameReset") = timers
            /\ HandleEndGame(s)
    \/ /\ currentTick = 0
       /\ gamePhase = "playing"
       /\ PhysicsUpdate(BallAt(Vec(PastLine, BALL_RADIUS, 0), ZeroVec))
    \/ gamePhase = "playing" /\ Tick(TIMER_INTERVAL)
    \/ FireCountdown
    \/ FireGoalReset
    \/ FireGameReset

SpecHost == Init /\ [][NextHost]_vars

\* the earliest-joined player still in the match
EarliestJoined(s) ==
    /\ s \in DOMAIN players
    /\ \A i, j \in DOMAIN HostOrder :
            HostOrder[j] = s /\ i < j => HostOrder[i] \notin DOMAIN players

\* C19: a start-game or end-game message from a session that is not the
\* earliest-joined player still in the match changes nothing (phase, timer,
\* scores, players, bodies, ball, countdown and other timers all stay) and
\* broadcasts no event.
C19_NonHostIgnored ==
    [][\A s \in HostClients :
            ~EarliestJoined(s) /\ (HandleStartGame(s) \/ HandleEndGame(s)) =>
                /\ UNCHANGED <<players, playerOrder, worldVars, matchVars, tickVars, goalVars,
                               roomVars, timers, now>>
                /\ log' = << >>]_vars

\* the first client has left with the game running and a goal on the board;
\* the second is host now, and the third, who is not, can send either message
C19_Witness ==
    /\ gamePhase = "playing"
    /\ redScore = 1
    /\ timer < MATCH_TIMER_START
    /\ "s1" \notin DOMAIN players
    /\ EarliestJoined("s2")
    /\ "s3" \in clients
    /\ ~EarliestJoined("s3")
    /\ log = << >>
    /\ ENABLED HandleEndGame("s3")
    /\ ENABLED HandleStartGame("s3")

(***************************************************************************)
(* update-state messages                                                   *)
(***************************************************************************)
UpdateSenders == {"s1", "s2", "s3"}
UpdateKeys == {"invisible", "giant", "resetPosition", "speedMult"}

\* Two clients join and may leave; they, and a session that never had a
\* player, send update-state with a key and a boolean value; a giant power-up
\* may appear at the red spawn and sim steps run.
NextUpdate ==
    \/ currentTick = 0 /\ OnJoin("s1", "red")
    \/ currentTick = 0 /\ OnJoin("s2", "blue")
    \/ \E s \in UpdateSenders : OnLeave(s)
    \/ \E s \in UpdateSenders : \E key \in UpdateKeys : \E value \in BOOLEAN :
            HandleUpdateState(s, key, value)
    \/ powerUps = << >> /\ timers = << >> /\ SpawnPowerUp(1, "giant", SpawnX("red"), 0)
    \/ PhysicsUpdate(KeepBall)

SpecUpdate == Init /\ [][NextUpdate]_vars

\* player record q is p except possibly in field key
SameBut(p, q, key) == \A f \in DOMAIN p : f # key => q[f] = p[f]

\* C20: an update-state message changes at most the sender's own invisible or
\* giant field, the one the key names; with any other key, or from a session
\* without a player, nothing in the match state changes.
C20_UpdateStateFrame ==
    [][\A s \in UpdateSenders : \A key \in UpdateKeys : \A value \in BOOLEAN :
            HandleUpdateState(s, key, value) =>
                /\ UNCHANGED <<playerOrder, worldVars, matchVars, tickVars, goalVars,
                               roomVars, timers, now>>
                /\ DOMAIN players' = DOMAIN players
                /\ \A x \in DOMAIN players : x # s => players'[x] = players[x]
                /\ s \in DOMAIN players /\ key \in {"invisible", "giant"} =>
                        SameBut(players[s], players'[s], key)
                /\ s \notin DOMAIN players \/ key \notin {"invisible", "giant"} =>
                        players' = players]_vars

\* the red player has made itself invisible and giant by message, after a sim
\* step, while the blue player's flags are untouched; the giant flag came
\* without the giant collider
C20_Witness ==
    /\ currentTick >= 1
    /\ {"s1", "s2"} \subseteq DOMAIN players
    /\ players["s1"].invisible
    /\ players["s1"].giant
    /\ playerBodies["s1"].collider = "ball"
    /\ ~players["s2"].invisible
    /\ ~players["s2"].giant
    /\ timers = << >>

(***************************************************************************)
(* SpecEmpty: the empty-room timeout                                       *)
(***************************************************************************)
EmptyOrder == << "s1", "s2", "s3" >>
EmptyClients == {EmptyOrder[i] : i \in DOMAIN EmptyOrder}
EmptyGap == EMPTY_DISPOSE_DELAY \div 6

\* Clients join in order and leave; the host may start the game, whose
\* countdown then runs; the clock moves by EmptyGap or to the next timer.
NextEmpty ==
    \/ \E i \in DOMAIN EmptyOrder :
            /\ \A j \in 1 .. i - 1 : EmptyOrder[j] \in seen
            /\ OnJoin(EmptyOrder[i], "")
    \/ \E s \in EmptyClients : OnLeave(s)
    \/ now = StartTime /\ timerInterval = Null /\ HandleStartGame("s1")
    \/ Tick(EmptyGap)
    \/ RunClock
    \/ FireCountdown
    \/ FireEmptyDispose

SpecEmpty == Init /\ [][NextEmpty]_vars

EmptyTimers(ts) == {i \in DOMAIN ts : ts[i].kind = "emptyDispose"}

\* C21: the empty-room timeout is pending only while the match has no client,
\* and at most one is pending; it is scheduled EMPTY_DISPOSE_DELAY ahead by
\* the leave of the last client and by nothing else, a join leaves none
\* pending, and the match is disposed only by that timeout coming due with no
\* client connected.
C21_EmptyTimeout ==
    /\ [](/\ Cardinality(EmptyTimers(timers)) <= 1
          /\ EmptyTimers(timers) # {} => clients = {} /\ emptyDisposeTimeout
          /\ clients = {} /\ seen # {} /\ ~disposed => EmptyTimers(timers) # {})
    /\ [][/\ \A s \in EmptyClients : OnLeave(s) /\ clients' = {} =>
                \E i \in EmptyTimers(timers') : timers'[i].due = now + EMPTY_DISPOSE_DELAY
          /\ \A s \in EmptyClients : OnJoin(s, "") => EmptyTimers(timers') = {}
          /\ (\E i \in EmptyTimers(timers') :
                    \A j \in EmptyTimers(timers) : timers[j].due # timers'[i].due) =>
                /\ clients # {}
                /\ clients' = {}
                /\ \A i \in EmptyTimers(timers') : timers'[i].due = now + EMPTY_DISPOSE_DELAY
          /\ disposed' /\ ~disposed =>
                /\ clients = {}
                /\ \E i \in EmptyTimers(timers) : timers[i].due <= now
                /\ EmptyTimers(timers') = {}]_vars

\* two clients came and went one EmptyGap apart with the game started; the
\* second visit cancelled the first timeout, and the match went a full delay
\* after the second one left
C21_Witness ==
    /\ disposed
    /\ seen = {"s1", "s2"}
    /\ clients = {}
    /\ gamePhase = "playing"
    /\ now = StartTime + EmptyGap + EMPTY_DISPOSE_DELAY

(***************************************************************************)
(* SpecRegistry: a private room and the code table                         *)
(***************************************************************************)
JoinCodes == {"AAAA", "BBBB"}
OtherRooms == {"r2"}
RegistryClients == {"s1", "s2"}

\* onCreate of another private room of the process, with a generated code,
\* which generateUniqueJoinCode takes from outside the table
OnCreateOther(roomId, code) ==
    /\ roomId \notin DOMAIN roomIdToCode
    /\ code \notin DOMAIN codeToRoomId
    /\ RegisterPrivateRoom(roomId, code)
    /\ UNCHANGED <<players, playerOrder, worldVars, matchVars, tickVars, goalVars, clients,
                   seen, emptyDisposeTimeout, disposed, privateCode, timers, now, log>>

InitRegistry == InitRoom /\ \E code \in JoinCodes : PrivateRoom(code)

\* A private room is created with a code; clients join and leave, another
\* private room may be created, and the clock runs until the empty-room
\* timeout disconnects the room.
NextRegistry ==
    \/ \E s \in RegistryClients : OnJoin(s, "")
    \/ \E s \in RegistryClients : OnLeave(s)
    \/ \E r \in OtherRooms : \E code \in JoinCodes : OnCreateOther(r, code)
    \/ Tick(EmptyGap)
    \/ RunClock
    \/ FireEmptyDispose

SpecRegistry == InitRegistry /\ [][NextRegistry]_vars

\* getRoomIdByCode(code): undefined when the table has no such code
GetRoomIdByCode(code) == IF code \in DOMAIN codeToRoomId THEN codeToRoomId[code] ELSE Undefined

\* C22: once a private room is disposed, resolving its join code returns no
\* room id and the table has no entry for the room's id.
C22_CodeGoneAfterDispose ==
    disposed /\ privateCode # Null =>
        /\ GetRoomIdByCode(privateCode) = Undefined
        /\ RoomId \notin DOMAIN roomIdToCode

(***************************************************************************)
(* SpecValid: input records with a rotY no angle has                       *)
(***************************************************************************)
\* rotY here counts quarter turns; 400 is a hundred full turns
RotYs == {0, 1, 400}
ValidInputs(s) == {Input(t, 0, 0, r, 0) : t \in 0 .. MaxSmallTick + 1, r \in RotYs}

\* beyond a full turn either way, so outside every range of angles
RotYOutOfRange(r) == r < -4 \/ r > 4

\* One client joins and sends records one at a time or in pairs, with old and
\* new ticks and any of the rotY values, while sim steps run; it may leave.
NextValid ==
    \/ OnJoin("s1", "red")
    \/ OnLeave("s1")
    \/ \E input \in ValidInputs("s1") : HandleInputSingle("s1", input)
    \/ \E a, b \in ValidInputs("s1") : HandleInputBatch("s1", << a, b >>)
    \/ PhysicsUpdate(RestingBall)

SpecValid == Init /\ [][NextValid]_vars

\* C23: a malformed input record, here one with an out-of-range rotY or with
\* a tick not above lastReceivedTick, is never enqueued and never applied by
\* a sim step, and handling it leaves the sender connected.
C23_MalformedDropped ==
    /\ [](\A s \in DOMAIN players :
            /\ \A i \in DOMAIN players[s].inputQueue :
                    ~RotYOutOfRange(players[s].inputQueue[i].rotY)
            /\ ~RotYOutOfRange(players[s].rotY))
    /\ [][\A input \in ValidInputs("s1") :
            HandleInputSingle("s1", input) =>
                /\ clients' = clients
                /\ "s1" \in DOMAIN players /\ input.tick <= players["s1"].lastReceivedTick =>
                        players' = players]_vars

(***************************************************************************)
(* SpecFault: sim steps in which the engine throws                         *)
(***************************************************************************)
\* One client joins, sends records and may leave; sim steps run, and in any
\* of them the engine's world step may throw.
NextFault ==
    \/ OnJoin("s1", "red")
    \/ OnLeave("s1")
    \/ \E input \in ValidInputs("s1") : HandleInputSingle("s1", input)
    \/ PhysicsUpdate(RestingBall)
    \/ PhysicsUpdateThrows

SpecFault == Init /\ [][NextFault]_vars

\* C24: a sim step that throws ends with the match disposed.
C24_ThrowingStepDisposes == [][PhysicsUpdateThrows => disposed']_vars

(***************************************************************************)
(* The tick counter, under SpecMatch                                       *)
(***************************************************************************)
\* a sim step of the match environment
MatchStep == \E w \in MatchBalls : PhysicsUpdate(w)

MaxLandSteps == 60     \* sim steps of a behaviour that runs until the player lands

\* The client joins and sends records with jump ids during the first
\* MaxSteps steps, one at a time; then nothing more arrives and the sim loop
\* runs on, replaying the last record, long enough for the player to land.
NextLand ==
    \/ currentTick = 0 /\ OnJoin(Jumper, "red")
    \/ /\ Jumper \in DOMAIN players
       /\ players[Jumper].inputQueue = << >>
       /\ currentTick < MaxSteps
       /\ \E input \in JumpInputs : HandleInputSingle(Jumper, input)
    \/ currentTick < MaxLandSteps /\ PhysicsStep(RestingBall)

SpecLand == Init /\ [][NextLand]_vars

\* the last record consumed carried a new jump id and no jump was fired for it
Refused(p) ==
    /\ p.lastInput # << >>
    /\ p.lastInput[1].jumpRequestId > p.lastProcessedJumpRequestId

\* C26 as stated: a jump request refused because jumpCount was MAX_JUMPS
\* fires no jump on any later step either, as long as no other record is
\* consumed.
C26_RefusedForGood ==
    [][SimStep =>
            \A s \in DOMAIN players :
                Refused(players[s]) /\ players[s].inputQueue = << >> =>
                    ~Jumped(players[s], players'[s])]_vars

\* C26, amended: a record whose new jump id is applied while jumpCount is
\* MAX_JUMPS fires no jump on that step and leaves
\* lastProcessedJumpRequestId as it was; while no other record is consumed
\* the refused record is replayed on every step, fires nothing as long as
\* jumpCount is MAX_JUMPS, and fires a first jump with its id on the step on
\* which the player is back on the ground.
C26_RefusedUntilLanding ==
    [][SimStep =>
            \A s \in DOMAIN players :
                LET p == players[s]
                    q == players'[s]
                    rec == RecordOnStep(p)
                    count == GroundedJumpCount(p, playerBodies[s])
                IN  /\ rec.jumpRequestId > p.lastProcessedJumpRequestId /\ count = MAX_JUMPS =>
                            /\ ~Jumped(p, q)
                            /\ q.lastProcessedJumpRequestId = p.lastProcessedJumpRequestId
                            /\ Refused(q)
                    /\ Refused(p) /\ p.inputQueue = << >> =>
                            /\ rec = p.lastInput[1]
                            /\ Jumped(p, q) <=> count < MAX_JUMPS
                            /\ Jumped(p, q) =>
                                    /\ count = 0
                                    /\ q.jumpCount = 1
                                    /\ q.lastProcessedJumpRequestId = rec.jumpRequestId]_vars

\* the third request came after the double jump and was refused; long after
\* the last record was consumed the player came down and jumped on it
C26_Witness ==
    /\ Jumper \in DOMAIN players
    /\ currentTick > 10 * MaxSteps
    /\ players[Jumper].lastReceivedTick = 3
    /\ players[Jumper].inputQueue = << >>
    /\ players[Jumper].lastProcessedJumpRequestId = 3
    /\ players[Jumper].jumpCount = 1
    /\ players[Jumper].vy = JumpForce(players[Jumper])

(***************************************************************************)
(* SpecNet: enforceBallBoundaries, the zone-aware enforcer of part_001     *)
(***************************************************************************)
GOAL_NET_HALF_WIDTH == Pos(25, 10) - BALL_RADIUS   \* goalSideLimit = GOAL_POST_Z - ballR

\* enforceBallBoundaries() applied to the ball body bb.  Every test reads the
\* position the method started with; the Z section corrects x in one of its
\* branches and the X section, which runs after it, may correct x again.
EnforceBallBoundaries(bb) ==
    LET pos == bb.pos
        vel == bb.vel
        maxX == ARENA_HALF_WIDTH - BALL_RADIUS
        maxZ == ARENA_HALF_DEPTH - BALL_RADIUS
        goalSideLimit == GOAL_NET_HALF_WIDTH
        goalBackLimit == GOAL_BACK_X - BALL_RADIUS
        isPastGoalLine == Abs(pos.x) > GOAL_LINE_X
        isDeepInGoal == Abs(pos.x) > ARENA_HALF_WIDTH
        isInGoalOpening ==
            Abs(pos.z) < goalSideLimit + BALL_RADIUS /\ pos.y < GOAL_HEIGHT /\ isPastGoalLine
        keepX == [p |-> pos.x, v |-> vel.x, c |-> FALSE]
        keepZ == [p |-> pos.z, v |-> vel.z, c |-> FALSE]
        \* Z axis section: what it does to x ...
        x1 == IF isDeepInGoal /\ Abs(pos.z) > goalSideLimit
              THEN [p |-> IF pos.x > 0 THEN maxX ELSE -maxX, v |-> BounceDown(vel.x, 30),
                    c |-> TRUE]
              ELSE keepX
        \* ... and to z
        z1 == IF isDeepInGoal
              THEN IF Abs(pos.z) > goalSideLimit THEN keepZ
                   ELSE IF pos.z > goalSideLimit
                   THEN [p |-> goalSideLimit, v |-> BounceDown(vel.z, 150), c |-> TRUE]
                   ELSE IF pos.z < -goalSideLimit
                   THEN [p |-> -goalSideLimit, v |-> BounceUp(vel.z, 150), c |-> TRUE]
                   ELSE keepZ
              ELSE IF pos.z > maxZ THEN [p |-> maxZ, v |-> BounceDown(vel.z, 30), c |-> TRUE]
              ELSE IF pos.z < -maxZ THEN [p |-> -maxZ, v |-> BounceUp(vel.z, 30), c |-> TRUE]
              ELSE keepZ
        \* X axis section
        x2 == IF isInGoalOpening \/ isDeepInGoal
              THEN IF pos.x > goalBackLimit
                   THEN [p |-> goalBackLimit, v |-> BounceDown(vel.x, 150), c |-> TRUE]
                   ELSE IF pos.x < -goalBackLimit
                   THEN [p |-> -goalBackLimit, v |-> BounceUp(vel.x, 150), c |-> TRUE]
                   ELSE x1
              ELSE IF pos.x > maxX THEN [p |-> maxX, v |-> BounceDown(vel.x, 30), c |-> TRUE]
              ELSE IF pos.x < -maxX THEN [p |-> -maxX, v |-> BounceUp(vel.x, 30), c |-> TRUE]
              ELSE x1
        \* Y axis section: floor, else ceiling
        y1 == IF pos.y < BALL_RADIUS
              THEN [p |-> BALL_RADIUS, v |-> BounceUp(vel.y, 60), c |-> TRUE]
              ELSE IF pos.y > WALL_HEIGHT - BALL_RADIUS
              THEN [p |-> WALL_HEIGHT - BALL_RADIUS, v |-> BounceDown(vel.y, 10), c |-> TRUE]
              ELSE [p |-> pos.y, v |-> vel.y, c |-> FALSE]
        needsCorrection == x1.c \/ x2.c \/ z1.c \/ y1.c
    IN  IF needsCorrection
        THEN [bb EXCEPT !.pos = Vec(x2.p, y1.p, z1.p), !.vel = Vec(x2.v, y1.v, z1.v)]
        ELSE bb

\* this.world.step() leaving the ball as the outcome w says
WorldStepBall(w) ==
    /\ ~disposed
    /\ ballBody' = StepBall(ballBody, w)
    /\ log' = << >>
    /\ UNCHANGED <<players, playerOrder, playerBodies, ball, powerUps, matchVars, tickVars,
                   goalVars, roomVars, timers, now>>

\* this.enforceBallBoundaries()
CallEnforceBallBoundaries ==
    /\ ~disposed
    /\ ballBody' = EnforceBallBoundaries(ballBody)
    /\ log' = << >>
    /\ UNCHANGED <<players, playerOrder, playerBodies, ball, powerUps, matchVars, tickVars,
                   goalVars, roomVars, timers, now>>

NetXs ==
    LET m == {0, GOAL_LINE_X + 1, ARENA_HALF_WIDTH, ARENA_HALF_WIDTH + 1,
              GOAL_BACK_X - BALL_RADIUS, GOAL_BACK_X - BALL_RADIUS + 1, GOAL_BACK_X}
    IN  m \cup {-x : x \in m}
NetZs ==
    LET m == {0, GOAL_NET_HALF_WIDTH, GOAL_NET_HALF_WIDTH + 1, GOAL_WIDTH \div 2,
              ARENA_HALF_DEPTH}
    IN  m \cup {-z : z \in m}
NetYs == {BALL_RADIUS, GOAL_HEIGHT}
NetBalls ==
    {BallAt(Vec(x, y, z), Vec(v, 0, 0)) :
        x \in NetXs, y \in NetYs, z \in NetZs, v \in {-Vel(3, 1), Vel(3, 1)}}

\* The engine leaves the ball anywhere around the goal nets, and the enforcer
\* runs.
NextNet ==
    \/ \E w \in NetBalls : WorldStepBall(w)
    \/ CallEnforceBallBoundaries

SpecNet == Init /\ [][NextNet]_vars

\* C27: with the ball deep in the goal extension (|x| > 14.5) and outside the
\* goal-net width, one run of the enforcer leaves it at the arena wall or
\* inside, |x| <= 14.5 - R_b.
C27_PushedBackToArenaWall ==
    [][CallEnforceBallBoundaries =>
            (/\ Abs(ballBody.pos.x) > ARENA_HALF_WIDTH
             /\ Abs(ballBody.pos.z) > GOAL_NET_HALF_WIDTH
                    => Abs(ballBody'.pos.x) <= ARENA_HALF_WIDTH - BALL_RADIUS)]_vars

(***************************************************************************)
(* SpecAward: a goal, the reset it schedules and the cooldown              *)
(***************************************************************************)
\* the engine puts the ball in the red or blue goal mouth, or leaves it
AwardBalls ==
    {BallAt(Vec(PastLine, BALL_RADIUS, 0), ZeroVec),
     BallAt(Vec(-PastLine, BALL_RADIUS, 0), ZeroVec),
     KeepBall}

\* A client joins; sim steps put the ball in a goal mouth or leave it where it
\* is; the clock moves a second at a time or to the next timer, and the
\* scheduled resets run.
NextAward ==
    \/ currentTick = 0 /\ OnJoin("s1", "red")
    \/ \E w \in AwardBalls : PhysicsUpdate(w)
    \/ Tick(TIMER_INTERVAL)
    \/ RunClock
    \/ FireGoalReset

SpecAward == Init /\ [][NextAward]_vars

\* the room clock keeps running and runs the timeouts that are due
AwardClock == Tick(TIMER_INTERVAL) \/ RunClock \/ FireGoalReset

SpecAwardLive == SpecAward /\ WF_vars(AwardClock)

GoalResets(ts) == {i \in DOMAIN ts : ts[i].kind = "goalReset"}

\* C28: a step that awards a goal schedules one reset GOAL_RESET_DELAY ahead;
\* while it is pending the cooldown is running and no step awards a goal,
\* however long the ball stays in the goal mouth; the reset runs, once, before
\* the cooldown is over, puts the ball back at kick-off, out of the goal, and
\* broadcasts one game-reset.
C28_GoalThenReset ==
    /\ [](\A i \in GoalResets(timers) :
            /\ GoalResets(timers) = {i}
            /\ timers[i].due = lastGoalTime + GOAL_RESET_DELAY
            /\ now - lastGoalTime < GOAL_COOLDOWN)
    /\ [][/\ SimStep /\ GoalEvents(log') > 0 =>
                /\ GoalEvents(log') = 1
                /\ GoalResets(timers) = {}
                /\ timers' = Append(timers, Timer("goalReset", now + GOAL_RESET_DELAY,
                                                  Null, 0, 0))
          /\ SimStep /\ GoalResets(timers) # {} =>
                /\ GoalEvents(log') = 0
                /\ ScoreSum' = ScoreSum
                /\ timers' = timers
          /\ GoalResets(timers') # GoalResets(timers) /\ ~SimStep =>
                /\ GoalResets(timers') = {}
                /\ now >= lastGoalTime + GOAL_RESET_DELAY
                /\ log' = << Event("game-reset", Null) >>
                /\ BallAtKickOff(ballBody')
                /\ ~InGoal(ballBody'.pos)]_vars
    /\ (GoalResets(timers) # {}) ~> (JustReset /\ GoalResets(timers) = {})

\* a goal was awarded with the ball in the red goal mouth, the ball stayed
\* there for a step, the reset ran, and after the cooldown a step left the
\* ball at kick-off without a second goal
C28_Witness ==
    /\ currentTick = MaxSteps
    /\ ScoreSum = 1
    /\ lastGoalTime > 0
    /\ now >= lastGoalTime + GOAL_COOLDOWN
    /\ timers = << >>
    /\ ~InGoal(ballBody.pos)
    /\ log = << >>

(***************************************************************************)
(* SpecDespawn: the life of a power-up                                     *)
(***************************************************************************)
\* where power-ups appear: on the red spawn, or at the centre spot, out of
\* every player's reach
DespawnPlaces == {SpawnX("red"), 0}

\* Two red players stand on the red spawn.  Kick power-ups appear at the two
\* pickup moments, sim steps run there, and the clock runs the timers out.
NextDespawn ==
    \/ currentTick = 0 /\ OnJoin("s1", "red")
    \/ currentTick = 0 /\ OnJoin("s2", "red")
    \/ \E x \in DespawnPlaces :
            /\ now \in PickupMoments
            /\ PowerUpIds \ PendingIds # {}
            /\ SpawnPowerUp(FreshId, "kick", x, 0)
    \/ now \in PickupMoments /\ PhysicsUpdate(KeepBall)
    \/ now = StartTime /\ Tick(PickupGap)
    \/ RunClock
    \/ FireDespawn
    \/ FireExpire

SpecDespawn == Init /\ [][NextDespawn]_vars

\* the room clock keeps running and runs the timeouts that are due
DespawnClock == RunClock \/ FireDespawn \/ FireExpire

SpecDespawnLive == SpecDespawn /\ WF_vars(DespawnClock)

DespawnTimers(ts) == {i \in DOMAIN ts : ts[i].kind = "despawn"}
CollectedEvents(events) == Len(SelectSeq(events, LAMBDA e : e.type = "powerup-collected"))

\* C29: a power-up on the field has its own despawn timeout pending, set
\* POWERUP_DESPAWN after its spawn; every power-up leaves the field in the end;
\* a sim step removes exactly the power-ups it announces as collected, one
\* announcement each; a despawn timeout removes the power-up with its id and
\* nothing else, so nothing at all when that one was collected before.
C29_PowerUpRemoved ==
    /\ [](/\ \A i \in DOMAIN powerUps :
                \E j \in DespawnTimers(timers) :
                    /\ timers[j].id = powerUps[i].id
                    /\ timers[j].due <= now + POWERUP_DESPAWN
          /\ \A i, j \in DOMAIN powerUps : powerUps[i].id = powerUps[j].id => i = j)
    /\ [][/\ Len(powerUps') > Len(powerUps) =>
                \E i \in DespawnTimers(timers') :
                    /\ powerUps' = Append(powerUps, powerUps'[Len(powerUps')])
                    /\ timers'[i].id = powerUps'[Len(powerUps')].id
                    /\ timers'[i].due = now + POWERUP_DESPAWN
          /\ SimStep =>
                /\ PowerUpIdsOf(powerUps') \subseteq PowerUpIdsOf(powerUps)
                /\ CollectedEvents(log') = Len(powerUps) - Len(powerUps')
          /\ ~SimStep /\ Len(powerUps') <= Len(powerUps) /\ powerUps' # powerUps =>
                \E i \in DespawnTimers(timers) :
                    /\ timers[i].due <= now
                    /\ timers' = Remove(timers, i)
                    /\ PowerUpIdsOf(powerUps') = PowerUpIdsOf(powerUps) \ {timers[i].id}
          /\ ~SimStep /\ Cardinality(DespawnTimers(timers')) < Cardinality(DespawnTimers(timers)) =>
                \E i \in DespawnTimers(timers) :
                    /\ timers' = Remove(timers, i)
                    /\ powerUps' = SelectSeq(powerUps, LAMBDA q : q.id # timers[i].id)]_vars
    /\ \A id \in PowerUpIds :
            (id \in PowerUpIdsOf(powerUps)) ~> (id \notin PowerUpIdsOf(powerUps))

\* both players stood in reach of the first power-up and one of them got it;
\* its despawn timeout came due later with a second power-up, out of reach,
\* still on the field, and left that one alone
C29_Witness ==
    /\ {"s1", "s2"} \subseteq DOMAIN players
    /\ now = StartTime + POWERUP_DESPAWN
    /\ PowerUpIdsOf(powerUps) = {2}
    /\ DespawnTimers(timers) # {}
    /\ \A i \in DespawnTimers(timers) : timers[i].id = 2 /\ timers[i].due > now
    /\ players["s2"].kickMult = 100

(***************************************************************************)
(* The kick message, under SpecAttrib                                      *)
(***************************************************************************)
\* the sender's body is farther from the ball than KICK_RANGE
OutOfKickRange(s) ==
    LET a == playerBodies[s].pos
        b == ballBody.pos
    IN  (b.x - a.x) * (b.x - a.x) + (b.y - a.y) * (b.y - a.y) + (b.z - a.z) * (b.z - a.z)
            > KICK_RANGE * KICK_RANGE

\* C30: a kick from a session without a player or body, or from a player
\* farther from the ball than KICK_RANGE, changes nothing and announces
\* nothing; a kick within range raises the sender's shots by exactly 1 and
\* makes the sender the ball's owner.
C30_KickContract ==
    [][\A s \in Kickers :
            HandleKick(s, ZeroVec) =>
                IF s \notin DOMAIN players \/ s \notin DOMAIN playerBodies \/ OutOfKickRange(s)
                THEN /\ UNCHANGED <<players, playerOrder, worldVars, matchVars, tickVars,
                                    goalVars, roomVars, timers, now>>
                     /\ log' = << >>
                ELSE /\ PlusOne(players[s].shots, players'[s].shots)
                     /\ ball'.ownerSessionId = s
                     /\ log' = << Event("ball-kicked", s) >>]_vars

(***************************************************************************)
(* SpecContact: two players meet the ball in the contact pass and kick it  *)
(***************************************************************************)
ContactClients == {"s1", "s2"}

\* where the engine leaves the ball: overlapping the players at a spawn and
\* coming at them, overlapping and moving away or past them, at rest beside
\* them (in kick range, out of contact), and at rest on their heads
ContactBalls ==
    { BallAt(Vec(SpawnX(team) + dx, BALL_RADIUS, 0), Vec(vx, 0, 0)) :
          team \in {"red", "blue"}, dx \in {-Pos(1, 1), Pos(1, 1)},
          vx \in {-Vel(3, 1), Vel(3, 1)} }
    \cup { BallAt(Vec(SpawnX("red") + Pos(1, 1), BALL_RADIUS, 0), Vec(0, 0, Vel(3, 1))) }
    \cup { BallAt(Vec(SpawnX(team) + Pos(2, 1), BALL_RADIUS, 0), ZeroVec) :
               team \in {"red", "blue"} }
    \cup { BallOnHead }

NextContact ==
    \/ \E s \in ContactClients : \E team \in {"red", "blue"} :
            currentTick = 0 /\ OnJoin(s, team)
    \/ \E s \in ContactClients : KicksSinceStep < MaxKicks /\ HandleKick(s, ZeroVec)
    \/ \E w \in ContactBalls : PhysicsUpdate(w)

SpecContact == Init /\ [][NextContact]_vars

\* the sessions that touched the ball in the handler run that wrote the
\* events, in the order of their touches
Touchers(events) ==
    LET touches == SelectSeq(events, LAMBDA e : e.type \in {"ball-touched", "ball-kicked"})
    IN  [i \in DOMAIN touches |-> touches[i].arg]

\* the history <<last, second-last>> after the touches of ss, shifting on a
\* touch by a session other than the last toucher only
RECURSIVE HistoryAfter(_, _)
HistoryAfter(h, ss) ==
    IF ss = << >> THEN h
    ELSE HistoryAfter(IF Head(ss) = h[1] THEN h ELSE << Head(ss), h[1] >>, Tail(ss))

\* C31: the last and second-last touchers are never the same session, and a
\* handler run takes the touch history through its touches (contact impulses
\* and accepted kicks) one by one: a touch by the last toucher leaves it as it
\* is, a touch by anyone else makes the old last toucher second-last and the
\* toucher last.
C31_TouchHistory ==
    /\ [](lastTouchSessionId # Null => secondLastTouchSessionId # lastTouchSessionId)
    /\ [][Touchers(log') # << >> =>
              << lastTouchSessionId', secondLastTouchSessionId' >>
                  = HistoryAfter(<< lastTouchSessionId, secondLastTouchSessionId >>,
                                 Touchers(log'))]_vars

\* both players touched the ball in one contact pass, the one who had been the
\* last toucher first
C31_Witness ==
    /\ Touchers(log) = << "s1", "s2" >>
    /\ lastTouchSessionId = "s2"
    /\ secondLastTouchSessionId = "s1"
    /\ currentTick = MaxSteps

\* what the contact pass of the step just taken computed for session s, the
\* engine having left the ball as w
ContactOf(s, w) == Contact(players'[s], playerBodies'[s], w.pos, w.vel)

\* the players that overlapped the ball in the contact pass of the step just taken
Overlapping(w) == {s \in DOMAIN players' \cap DOMAIN playerBodies' : ContactOf(s, w).overlap}

InStabilityMode(s, w) == ContactOf(s, w).isOnHead /\ ContactOf(s, w).isLowVelocity

TouchUnchanged == UNCHANGED <<lastTouchSessionId, secondLastTouchSessionId>>

\* C32: in a contact pass in which stability mode applies to every player
\* that overlaps the ball, no ball-touched is emitted, the touch history stays
\* as it was, one of those players becomes the ball's owner and the ball is
\* not lower than the engine left it; in a contact pass in which every
\* overlapping player is out of stability mode with approachSpeed <= 0, the
\* ball stays where and as fast as the engine left it, and owner and touch
\* history stay as they were.
C32_ContactFrame ==
    [][\A w \in ContactBalls :
            PhysicsUpdate(w) /\ Overlapping(w) # {} =>
                /\ (\A s \in Overlapping(w) : InStabilityMode(s, w)) =>
                        /\ Touchers(log') = << >>
                        /\ TouchUnchanged
                        /\ ball'.ownerSessionId \in Overlapping(w)
                        /\ ballBody'.pos.y >= w.pos.y
                /\ (\A s \in Overlapping(w) :
                        ~InStabilityMode(s, w) /\ ~ContactOf(s, w).approaching) =>
                        /\ ballBody'.pos = w.pos
                        /\ ballBody'.vel = w.vel
                        /\ ball'.ownerSessionId = ball.ownerSessionId
                        /\ TouchUnchanged]_vars

\* the second player carries the ball on the head after the first player's
\* kick: the kicker is still the last toucher, the carrier owns the ball
C32_Witness ==
    /\ lastTouchSessionId = "s1"
    /\ ball.ownerSessionId = "s2"
    /\ log = << >>
    /\ currentTick >= 1
    /\ ballBody.pos.y = GROUND_Y + PLAYER_RADIUS + BALL_RADIUS + Pos(5, 100)

(***************************************************************************)
(* SpecPose: a player runs at the walls and jumps                          *)
(***************************************************************************)
\* records whose movement components are far beyond [-1, 1], with and
\* without a jump request
PoseInputs ==
    {Input(LastTick(Jumper) + 1, m[1], m[2], 0, m[3]) :
        m \in {<< 100, 0, 1 >>, << -100, 0, 0 >>, << 0, 100, 0 >>, << 0, -100, 1 >>}}

\* The client joins and sends records during the first MaxSteps steps, one at
\* a time; then the sim loop runs on, replaying the last record, long enough
\* for a jump to end on the ground.
NextPose ==
    \/ \E team \in {"red", "blue"} : currentTick = 0 /\ OnJoin(Jumper, team)
    \/ /\ Jumper \in DOMAIN players
       /\ players[Jumper].inputQueue = << >>
       /\ currentTick < MaxSteps
       /\ \E input \in PoseInputs : HandleInputSingle(Jumper, input)
    \/ currentTick < MaxLandSteps /\ PhysicsStep(RestingBall)

SpecPose == Init /\ [][NextPose]_vars

\* the published pose lies inside the arena and not below the ground
PoseInArena(p) ==
    /\ -ARENA_HALF_WIDTH <= p.x /\ p.x <= ARENA_HALF_WIDTH
    /\ -ARENA_HALF_DEPTH <= p.z /\ p.z <= ARENA_HALF_DEPTH
    /\ p.y >= GROUND_Y

\* the step fired no jump for p and its fall from the body's height would have
\* ended below the ground
SnappedToGround(p, q, body) ==
    /\ ~p.resetPosition
    /\ ~Jumped(p, q)
    /\ body.pos.y + DeltaPos(p.vy - GravityStep) < GROUND_Y

WallClockDeltas == {PHYSICS_TICK_RATE \div 2, 2 * PHYSICS_TICK_RATE + 1}

NextDelta ==
    \/ currentTick = 0 /\ OnJoin(Jumper, "red")
    \/ /\ Jumper \in DOMAIN players
       /\ players[Jumper].inputQueue = << >>
       /\ \E input \in JumpInputs : HandleInputSingle(Jumper, input)
    \/ \E deltaTimeMs \in WallClockDeltas :
            currentTick < MaxSteps /\ PhysicsUpdateDelta(deltaTimeMs, RestingBall)

SpecDelta == Init /\ [][NextDelta]_vars

\* C34: the state a sim step ends in, every player's pose, velocity and
\* jumpCount and currentTick included, does not depend on the wall-clock
\* delta handed to it: the step taken from a state with one delta is the
\* step taken from that state with any other delta.
C34_DeltaIgnored ==
    [][\A d1 \in WallClockDeltas :
            PhysicsUpdateDelta(d1, RestingBall) =>
                \A d2 \in WallClockDeltas : PhysicsUpdateDelta(d2, RestingBall)]_vars

\* the first step, handed a delta of half or twice the period, moved the
\* running, jumping player by what a step of 1/TICK_RATE s gives
C34_Witness ==
    /\ Jumper \in DOMAIN players
    /\ currentTick = 1
    /\ players[Jumper].vx = Smooth(0, Vel(MOVE_SPEED, 1))
    /\ players[Jumper].x = SpawnX("red") + DeltaPos(players[Jumper].vx)
    /\ players[Jumper].jumpCount = 1
    /\ players[Jumper].vy = Vel(JUMP_FORCE, 1)
    /\ players[Jumper].y = GROUND_Y + DeltaPos(players[Jumper].vy)

(***************************************************************************)
(* Bodies and players, under SpecTeam                                      *)
(***************************************************************************)
\* the session a handler run announced with an event of this type, if any
Announced(events, type) ==
    {events[i].arg : i \in {j \in DOMAIN events : events[j].type = type}}

\* C35: the sessions that own a rigid body are the sessions in the player
\* table; a join adds one session, new to both, to both tables, and a leave
\* takes the leaver out of both.
C35_BodiesMatchPlayers ==
    /\ [](DOMAIN playerBodies = DOMAIN players)
    /\ [][/\ \A s \in Announced(log', "player-joined") :
                  /\ s \notin DOMAIN players \cup DOMAIN playerBodies
                  /\ DOMAIN players' = DOMAIN players \cup {s}
                  /\ DOMAIN playerBodies' = DOMAIN playerBodies \cup {s}
          /\ \A s \in Announced(log', "player-left") :
                  /\ DOMAIN players' = DOMAIN players \ {s}
                  /\ DOMAIN playerBodies' = DOMAIN playerBodies \ {s}]_vars

\* two players have left and the three who stayed have their bodies
C35_Witness ==
    /\ Cardinality(seen) = 5
    /\ DOMAIN players = {"s2", "s4", "s5"}
    /\ DOMAIN playerBodies = {"s2", "s4", "s5"}
    /\ log = << Event("player-left", "s3") >>

(***************************************************************************)
(* SpecRestart: the host starts, ends and restarts the game at will        *)
(***************************************************************************)
MaxCountdowns == 2     \* countdown intervals scheduled at one time

Countdowns(ts) == {i \in DOMAIN ts : ts[i].kind = "countdown"}

\* The host joins and sends start-game in any phase and end-game while a
\* game is on and no earlier end of game awaits its reset; the ball enters a
\* goal once, while a game is on; the clock runs its timers second by second.
NextRestart ==
    \/ currentTick = 0 /\ now = StartTime /\ OnJoin(Host, "red")
    \/ /\ gamePhase = "playing"
       /\ lastGoalTime = 0
       /\ PhysicsUpdate(BallAt(Vec(PastLine, BALL_RADIUS, 0), ZeroVec))
    \/ Tick(TIMER_INTERVAL)
    \/ Cardinality(Countdowns(timers)) < MaxCountdowns /\ HandleStartGame(Host)
    \/ /\ gamePhase = "playing"
       /\ WithoutKind(timers, "gameReset") = timers
       /\ HandleEndGame(Host)
    \/ FireCountdown
    \/ FireGoalReset
    \/ FireGameReset

SpecRestart == Init /\ [][NextRestart]_vars

\* the step is the host's start-game, or the end of a game (by end-game or by
\* the timer reaching 0)
StartsGame == \E i \in DOMAIN log' : log'[i].type = "game-started"
EndsGame == \E i \in DOMAIN log' : log'[i].type = "game-over"

\* C36: while the phase is 'playing', a step that is neither the end of the
\* game nor a new start-game leaves the phase 'playing' and wipes no score.
\* The timeout that endGame schedules is never cancelled: when the host
\* restarts within END_GAME_RESET_DELAY of the end of a game it runs
\* resetGame in the middle of the new one.
C36_PlayingUntilEnd ==
    [][gamePhase = "playing" /\ ~EndsGame /\ ~StartsGame =>
            /\ gamePhase' = "playing"
            /\ redScore' >= redScore
            /\ blueScore' >= blueScore]_vars

\* C37: at most one countdown interval is scheduled at any time, and while
\* the phase is 'playing' the timer goes down by one per second: a step that
\* lowers it lowers it by 1 and leaves no countdown due in the same second.
\* handleStartGame stops the old interval with the global clearInterval,
\* which does not stop an interval of the room clock: a start-game during a
\* game leaves two countdowns running.
C37_OneCountdown ==
    /\ [](Cardinality(Countdowns(timers)) <= 1)
    /\ [][gamePhase = "playing" /\ timer' < timer =>
              /\ timer' = timer - 1
              /\ \A i \in Countdowns(timers') : timers'[i].due > now']_vars

(***************************************************************************)
(* SpecCountdown: games played to the last second                          *)
(***************************************************************************)
\* where the engine leaves the ball: in either goal
CountdownBalls ==
    { BallAt(Vec(PastLine, BALL_RADIUS, 0), ZeroVec),
      BallAt(Vec(-PastLine, BALL_RADIUS, 0), ZeroVec) }

\* The host joins and starts a game when none is on, or again in the first
\* second of one; the ball may enter a goal once, in the first second of a
\* game; the host may end the game one second into it; the clock runs from
\* timer to timer, until the games begun in the first MaxClock seconds are over.
CountdownHorizon ==
    StartTime + (MaxClock + MATCH_TIMER_START) * TIMER_INTERVAL + END_GAME_RESET_DELAY

NextCountdown ==
    \/ currentTick = 0 /\ now = StartTime /\ OnJoin(Host, "red")
    \/ \E w \in CountdownBalls :
            /\ gamePhase = "playing" /\ timer = MATCH_TIMER_START /\ lastGoalTime = 0
            /\ PhysicsUpdate(w)
    \/ /\ timer = MATCH_TIMER_START
       /\ now < StartTime + MaxClock * TIMER_INTERVAL
       /\ Cardinality(Countdowns(timers)) < MaxCountdowns
       /\ HandleStartGame(Host)
    \/ /\ gamePhase = "playing"
       /\ timer = MATCH_TIMER_START - 1
       /\ WithoutKind(timers, "gameReset") = timers
       /\ HandleEndGame(Host)
    \/ timers # << >> /\ NextDue <= CountdownHorizon /\ RunClock
    \/ FireCountdown
    \/ FireGoalReset
    \/ FireGameReset

SpecCountdown == Init /\ [][NextCountdown]_vars

GameOvers(events) == SelectSeq(events, LAMBDA e : e.type = "game-over")

\* the team with the strictly higher score, or draw
Leader ==
    CHOOSE r \in {"red", "blue", "draw"} :
        /\ r = "red" <=> redScore > blueScore
        /\ r = "blue" <=> blueScore > redScore

\* C38 as stated: the timer changes only while the phase is 'playing', is
\* never negative, and reaching 0 makes the phase 'ended' with exactly one
\* game-over for the leading team or a draw.  The first part fails: resetGame
\* puts the timer back to its start value five seconds after the end of a
\* game, while the phase is 'ended'.
C38_TimerOnlyWhilePlaying ==
    /\ [](timer >= 0)
    /\ [][timer' # timer => gamePhase = "playing"]_vars
    /\ [][timer' # timer /\ timer' = 0 =>
              /\ gamePhase' = "ended"
              /\ GameOvers(log') = << Event("game-over", Leader) >>]_vars

\* C38, amended: the timer goes down only while the phase is 'playing', and
\* then by a countdown callback; any other change is resetGame putting it
\* back to MATCH_TIMER_START; it is never negative; and reaching 0 makes the
\* phase 'ended' with exactly one game-over for the leading team or a draw.
C38_TimerCountsDownWhilePlaying ==
    /\ [](timer >= 0)
    /\ [][timer' # timer =>
              \/ gamePhase = "playing" /\ timer' = timer - 1
              \/ /\ timer' = MATCH_TIMER_START
                 /\ \E i \in DOMAIN log' : log'[i].type = "game-reset"]_vars
    /\ [][timer' # timer /\ timer' = 0 =>
              /\ gamePhase' = "ended"
              /\ GameOvers(log') = << Event("game-over", Leader) >>]_vars

\* a game has just run out with blue ahead
C38_Witness ==
    /\ timer = 0
    /\ gamePhase = "ended"
    /\ redScore = 0
    /\ blueScore = 1
    /\ log = << Event("game-over", "blue") >>

CodeRooms == {"r2", "r3"}

\* onCreate of another private room of the process with options.code given:
\* the requested code is registered as it is, whether or not the table has it
OnCreateRequested(roomId, code) ==
    /\ roomId \notin DOMAIN roomIdToCode
    /\ RegisterPrivateRoom(roomId, code)
    /\ UNCHANGED <<players, playerOrder, worldVars, matchVars, tickVars, goalVars, clients,
                   seen, emptyDisposeTimeout, disposed, privateCode, timers, now, log>>

\* A private room is created with a code; clients join and leave, further
\* private rooms are created with a requested or a generated code, and the
\* clock runs until the empty-room timeout disconnects the first room.
NextCodes ==
    \/ \E s \in RegistryClients : OnJoin(s, "")
    \/ \E s \in RegistryClients : OnLeave(s)
    \/ \E r \in CodeRooms : \E code \in JoinCodes : OnCreateOther(r, code)
    \/ \E r \in CodeRooms : \E code \in JoinCodes : OnCreateRequested(r, code)
    \/ Tick(EmptyGap)
    \/ RunClock
    \/ FireEmptyDispose

SpecCodes == InitRegistry /\ [][NextCodes]_vars

\* the private rooms that have been created and not disposed: the first room
\* until it is disconnected, and the further rooms, which stay
LiveRooms == (IF disposed THEN {} ELSE {RoomId}) \cup (DOMAIN roomIdToCode \ {RoomId})

\* the code a room was created with: a room's own entry of roomIdToCode is
\* written once, by its onCreate
CodeOf(r) == IF r = RoomId THEN privateCode ELSE roomIdToCode[r]

\* C40: the code table stays consistent under any sequence of private-room
\* creations (with requested or generated codes) and disposals: codeToRoomId
\* and roomIdToCode are inverses of each other, no two live rooms share a
\* code, and a live private room is resolved by its code.
C40_CodeTableConsistent ==
    /\ \A c \in DOMAIN codeToRoomId :
            /\ codeToRoomId[c] \in DOMAIN roomIdToCode
            /\ roomIdToCode[codeToRoomId[c]] = c
    /\ \A r \in DOMAIN roomIdToCode :
            /\ roomIdToCode[r] \in DOMAIN codeToRoomId
            /\ codeToRoomId[roomIdToCode[r]] = r
    /\ \A r, q \in LiveRooms : r # q => CodeOf(r) # CodeOf(q)
    /\ \A r \in LiveRooms : GetRoomIdByCode(CodeOf(r)) = r

====
